---- MODULE Spec2Model ----
(***************************************************************************)
(* PikPakClient (src/lib/pikpak/client.ts) as a state machine.             *)
(*                                                                         *)
(* The client is one object whose fields are shared by every asynchronous  *)
(* operation started on it.  JavaScript runs each operation without        *)
(* interruption up to its next real suspension (fetch + response.json(),   *)
(* the backoff timer, a LocalStorage call); continuations chained on an    *)
(* already settled promise run in the same microtask drain.  One action of *)
(* this model is therefore one such run: it starts at the completion of an *)
(* I/O event of one operation and ends where that operation suspends on    *)
(* the next I/O, or finishes.                                              *)
(*                                                                         *)
(* Each operation owns a call stack of frames (stack[p]); the frame on top *)
(* is the one suspended on I/O.                                            *)
(***************************************************************************)
EXTENDS Integers, Sequences, FiniteSets, TLC

VARIABLES
  client,   \* the fields of the PikPakClient instance
  store,    \* the LocalStorage entry of the token
  stack,    \* per call site: the frames of the operation it is running
  budget,   \* per call site: operations it may still start (-1: any number)
  res,      \* per call site: the result of its latest operation
  fin,      \* per call site: the request() runs that ended in the last step
  cnt,      \* per call site: counters of its current operation
  sig,      \* the latest two captchaSign computations
  hook,     \* the state of the usePikPak hook
  prefetch, \* the refs and items of the useDetailPrefetch hook
  magnet    \* the refs of the search detail view and its getMagnetLink calls

vars == <<client, store, stack, budget, res, fin, cnt, sig,
          hook, prefetch, magnet>>

----------------------------------------------------------------------------
(* Bounds of the model *)

\* nesting depth of refreshes the server may provoke (a refresh request that
\* is itself answered error_code 16 starts a nested refresh)
MaxNest == 1
\* getMagnetLink calls made in the search detail view
MaxMagnetCalls == 4
\* fetches that useDetailPrefetch starts
MaxFetches == 4
\* login() and logout() calls made on the usePikPak hook
MaxCalls == 3
\* refreshAccessToken() activations inside one another that SpecNest follows
MaxDepth == 3
\* number of distinct token pairs the server hands out
MaxToken == 1

\* the asynchronous call sites that may run operations concurrently
Procs == {"p1", "p2"}
\* operations each call site starts when two of them overlap
OpsPerSite == 1

----------------------------------------------------------------------------
(* Program constants *)

DEFAULT_MAX_RETRIES == 3
DEFAULT_INITIAL_BACKOFF == 3
maxRetries == DEFAULT_MAX_RETRIES
initialBackoff == DEFAULT_INITIAL_BACKOFF

PIKPAK_USER_HOST == "user.mypikpak.com"
CLIENT_ID == "YNxT9w7GMdWvEOKa"
CLIENT_VERSION == "1.47.1"
PACKAGE_NAME == "com.pikcloud.pikpak"
SALTS ==
  << "Gez0T9ijiI9WCeTsKSg3SMlx",
     "zQdbalsolyb1R/",
     "ftOjr52zt51JD68C3s",
     "yeOBMH0JkbQdEFNNwQ0RI9T3wU/v",
     "BRJrQZiTQ65WtMvwO",
     "je8fqxKPdQVJiy1DM6Bc9Nb1",
     "niV",
     "9hFCW2R1",
     "sHKHpe2i96",
     "p7c5E6AcXQ/IJUuAEC9W6",
     "",
     "aRv9hjc9P+Pbn+u3krN6",
     "BzStcgE8qVdqjEH16l4",
     "SqgeZvL5j9zoHP95xWHt",
     "zVof5yaJkPe3VFpadPof" >>

\* error_code values as they appear in the JSON text
TOKEN_EXPIRED_CODE == "16"
OTHER_ERROR_CODE == "9"

----------------------------------------------------------------------------
(* Values *)

Null == "null"
Undef == "undefined"
Falsy(v) == v \in {Null, Undef}
Truthy(v) == ~Falsy(v)
\* JavaScript a || b
OrElse(a, b) == IF Truthy(a) THEN a ELSE b

RECURSIVE Pow2(_)
Pow2(n) == IF n = 0 THEN 1 ELSE 2 * Pow2(n - 1)

AccessTokens == {"at" \o ToString(n) : n \in 1..MaxToken}
\* the refresh token issued together with access token a
RefreshOf(a) == "r" \o a
\* the access token an earlier session left in the TokenStore
EarlierToken == "at0"
CaptchaTokens == {"cap1"}
UserSub == "user1"

----------------------------------------------------------------------------
(* Strings.  A string whose characters the code inspects (the username   *)
(* tested by the regular expressions of login) is the sequence of its      *)
(* characters; Join gives the string itself.                               *)

RECURSIVE Join(_)
Join(s) == IF s = <<>> THEN "" ELSE Head(s) \o Join(Tail(s))

\* \d
Digit == {"0", "1", "2", "3", "4", "5", "6", "7", "8", "9"}
\* \w
WordChar ==
  Digit \cup {"_"} \cup
  {"a", "b", "c", "d", "e", "f", "g", "h", "i", "j", "k", "l", "m",
   "n", "o", "p", "q", "r", "s", "t", "u", "v", "w", "x", "y", "z",
   "A", "B", "C", "D", "E", "F", "G", "H", "I", "J", "K", "L", "M",
   "N", "O", "P", "Q", "R", "S", "T", "U", "V", "W", "X", "Y", "Z"}

\* u[i..j] matches \w+([seps]\w+)*
WordGroups(u, i, j, seps) ==
  /\ 1 <= i /\ i <= j /\ j <= Len(u)
  /\ u[i] \in WordChar
  /\ u[j] \in WordChar
  /\ \A k \in i..j : u[k] \in WordChar \cup seps
  /\ \A k \in i..(j - 1) : ~(u[k] \in seps /\ u[k + 1] \in seps)

\* /\w+([-+.]\w+)*@\w+([-.]\w+)*\.\w+([-.]\w+)*/.test(u): some substring
\* a..f of u matches, with the @ at position at and the \. at position dot
MatchesEmail(u) ==
  \E at \in {k \in 1..Len(u) : u[k] = "@"} :
  \E dot \in {k \in 1..Len(u) : u[k] = "."} :
  \E a \in 1..Len(u) : \E f \in 1..Len(u) :
    /\ WordGroups(u, a, at - 1, {"-", "+", "."})
    /\ WordGroups(u, at + 1, dot - 1, {"-", "."})
    /\ WordGroups(u, dot + 1, f, {"-", "."})

\* /\d{11,18}/.test(u): some substring of 11 to 18 characters is all digits
HasDigitRun(u) ==
  \E i \in 1..Len(u) : \E n \in 11..18 :
    /\ i + n - 1 <= Len(u)
    /\ \A k \in i..(i + n - 1) : u[k] \in Digit

\* the last position of the run of characters other than "/" that starts
\* at j (j - 1 when there is none): what the greedy [^/]+ takes first
NonSlashRunEnd(u, j) ==
  IF j > Len(u) \/ u[j] = "/" THEN j - 1
  ELSE CHOOSE e \in j..Len(u) :
         /\ \A k \in j..e : u[k] # "/"
         /\ e = Len(u) \/ u[e + 1] = "/"

\* (?:.*\/([^/]+))?$ after position e: the positions of a "/" that the
\* greedy .* may stop before, the rest of u being [^/]+ up to the end
TailSlash(u, e) ==
  {k \in (e + 1)..(Len(u) - 1) :
     u[k] = "/" /\ \A m \in (k + 1)..Len(u) : u[m] # "/"}

\* the ends e of group 1 with which the pattern matches when "/s/" is
\* taken at position i
ShareEnds(u, i) ==
  IF i + 2 <= Len(u) /\ u[i] = "/" /\ u[i + 1] = "s" /\ u[i + 2] = "/"
    THEN {e \in (i + 3)..NonSlashRunEnd(u, i + 3) :
            TailSlash(u, e) # {} \/ e = Len(u)}
    ELSE {}

SetMax(S) == CHOOSE x \in S : \A y \in S : y <= x
SetMin(S) == CHOOSE x \in S : \A y \in S : x <= y

NoMatch == [matched |-> FALSE, shareId |-> <<>>, parentId |-> <<>>]

\* (mutant) the second group is the segment that follows the share id
ShareLinkMatch_NextSegment(u) ==
  LET starts == {i \in 1..Len(u) : ShareEnds(u, i) # {}} IN
  IF starts = {} THEN NoMatch
  ELSE LET i == SetMin(starts)
           e == SetMax(ShareEnds(u, i))
       IN  [matched |-> TRUE, shareId |-> SubSeq(u, i + 3, e),
            parentId |-> IF TailSlash(u, e) = {} THEN <<>>
                         ELSE SubSeq(u, e + 2, NonSlashRunEnd(u, e + 2))]

\* /\/s\/([^/]+)(?:.*\/([^/]+))?$/.exec(u) on a string without line breaks:
\* the leftmost start that matches, group 1 as long as it can be, group 2
\* taken whenever the optional part can match (<<>>: the group is undefined)
ShareLinkMatch(u) ==
  LET starts == {i \in 1..Len(u) : ShareEnds(u, i) # {}} IN
  IF starts = {} THEN NoMatch
  ELSE LET i == SetMin(starts)
           e == SetMax(ShareEnds(u, i))
       IN  [matched |-> TRUE, shareId |-> SubSeq(u, i + 3, e),
            parentId |-> IF TailSlash(u, e) = {} THEN <<>>
                         ELSE SubSeq(u, SetMax(TailSlash(u, e)) + 1, Len(u))]

\* createHash("md5").update(s).digest("hex"): the digest of s, kept symbolic
md5(s) == "md5(" \o s \o ")"

\* (mutant) the salt is put in front of the running digest
HashThrough_SaltFirst(sign, salts) ==
  LET H[i \in 0..Len(salts)] ==
        IF i = 0 THEN sign ELSE md5(salts[i] \o H[i - 1])
  IN  H[Len(salts)]

\* utils.ts 34-38: for (const salt of SALTS) sign = md5(sign + salt)
HashThrough(sign, salts) ==
  LET H[i \in 0..Len(salts)] ==
        IF i = 0 THEN sign ELSE md5(H[i - 1] \o salts[i])
  IN  H[Len(salts)]

\* captchaSign(deviceId, timestamp): the marker "1." and the final digest,
\* `1.${sign}`, as the two pieces of the returned string
captchaSign(deviceId, timestamp) ==
  << "1.",
     HashThrough(CLIENT_ID \o CLIENT_VERSION \o PACKAGE_NAME \o deviceId
                   \o timestamp, SALTS) >>

\* (mutant) the digest is taken of the username alone
generateDeviceIdFromCredentials_UserOnly(u, pw) == md5(Join(u))

\* generateDeviceIdFromCredentials: md5 of `${username}${password}`
generateDeviceIdFromCredentials(u, pw) == md5(Join(u \o pw))

\* getTimestamp(): Date.now() as a string; the client is observed at one
\* clock reading, captchaSign is also applied to the others
Now == "1700000000000"
Timestamps == {Now, "1700000000001", "0"}

----------------------------------------------------------------------------
(* Errors (errors.ts) *)

Err(cls, msg, code) == [cls |-> cls, msg |-> msg, code |-> code, last |-> Undef]
NoErr == Err("none", Undef, Undef)

PikPakError(msg, code) == Err("PikPakError", msg, code)
PikPakAuthError(msg) == Err("PikPakAuthError", msg, Undef)
PikPakRetryError(msg) == Err("PikPakRetryError", msg, Undef)
\* (mutant) the message does not embed the last error
PikPakNetworkError_NoLast(lastError) ==
  [cls |-> "PikPakNetworkError", msg |-> "Max retries reached. Last error: ",
   code |-> Undef, last |-> Undef]

\* `Max retries reached. Last error: ${lastError?.message}`
PikPakNetworkError(lastError) ==
  [cls |-> "PikPakNetworkError", msg |-> "Max retries reached. Last error: ",
   code |-> Undef,
   last |-> IF lastError = NoErr THEN Undef ELSE lastError.msg]
\* an exception that is not a PikPakError (fetch TypeError, LocalStorage failure)
OtherError(msg) == Err("Error", msg, Undef)

\* error instanceof PikPakError: every subclass is one
\* (mutant) every exception is rethrown
IsPikPakError_Any(e) == TRUE

\* (mutant) a PikPakNetworkError is not recognised
IsPikPakError_NotNetwork(e) ==
  e.cls \in {"PikPakError", "PikPakAuthError", "PikPakRetryError",
             "PikPakConfigError"}

IsPikPakError(e) ==
  e.cls \in {"PikPakError", "PikPakAuthError", "PikPakRetryError",
             "PikPakNetworkError", "PikPakConfigError"}
\* (mutant) only the refreshed signal is recognised as a retry signal
IsRetryError_OnlyRefreshed(e) ==
  e.cls = "PikPakRetryError" /\ e.msg = "Token refreshed, please retry"

\* error instanceof PikPakRetryError
IsRetryError(e) == e.cls = "PikPakRetryError"

MsgTokenRefreshed == "Token refreshed, please retry"
MsgEmptyJson == "Empty JSON data"
\* (mutant) the refreshed signal is not recognised
IncludesTokenRefreshed_Never(e) == FALSE

\* error.message.includes("Token refreshed")
IncludesTokenRefreshed(e) == e.msg = MsgTokenRefreshed

----------------------------------------------------------------------------
(* Response envelopes (types.ts PikPakResponse) *)

EmptyEnv ==
  [error |-> Undef, error_code |-> Undef, error_description |-> Undef,
   access_token |-> Undef, refresh_token |-> Undef, sub |-> Undef,
   captcha_token |-> Undef, data |-> Undef]

ErrorEnvs ==
  { [EmptyEnv EXCEPT !.error = "some_error", !.error_code = c,
                     !.error_description = d] :
      c \in {Undef, TOKEN_EXPIRED_CODE, OTHER_ERROR_CODE},
      d \in {Undef, "remote description"} }
  \cup
  { [EmptyEnv EXCEPT !.error = "invalid_account_or_password",
                     !.error_code = c] :
      c \in {Undef, TOKEN_EXPIRED_CODE} }

\* values returned by operations that do not return an envelope
Void == [EmptyEnv EXCEPT !.data = "void"]
BoolVal(b) == [EmptyEnv EXCEPT !.data = IF b THEN "true" ELSE "false"]

\* a token pair, and the null of getStoredToken(), as returned values
TokenVal(t) == [EmptyEnv EXCEPT !.access_token = t.access_token,
                                !.refresh_token = t.refresh_token]
NullVal == [EmptyEnv EXCEPT !.data = "null"]

\* what the endpoint of a descriptor answers when it reports no error; the
\* assignments `userInfo.sub || null` of login (243) and of
\* refreshAccessToken (275) are the same code, so an answer without sub is
\* drawn for the sign-in only
SuccessEnvs(desc) ==
  IF desc \in {"refresh", "signin"}
    THEN { [EmptyEnv EXCEPT !.access_token = n, !.refresh_token = RefreshOf(n),
                            !.sub = s] :
             n \in AccessTokens,
             s \in IF desc = "signin" THEN {Undef, UserSub} ELSE {UserSub} }
         \cup {[EmptyEnv EXCEPT !.data = "no tokens"]}
  ELSE IF desc = "captcha"
    THEN { [EmptyEnv EXCEPT !.captcha_token = k] : k \in CaptchaTokens \cup {Undef} }
  ELSE {[EmptyEnv EXCEPT !.data = "payload"]}

\* kind "exc": fetch rejected; "nojson": response.json() threw or gave a
\* falsy value; "json": an envelope object.  ok is response.ok; an envelope
\* that reports an error comes with a failure status
Responses(desc) ==
  {[kind |-> "exc", ok |-> FALSE, env |-> EmptyEnv]}
  \cup { [kind |-> "nojson", ok |-> o, env |-> EmptyEnv] : o \in BOOLEAN }
  \cup { [kind |-> "json", ok |-> FALSE, env |-> e] : e \in ErrorEnvs }
  \cup { [kind |-> "json", ok |-> o, env |-> e] :
           o \in BOOLEAN, e \in SuccessEnvs(desc) }

\* the answers of a server that always sends a complete JSON envelope
WellFormed(desc) ==
  { r \in Responses(desc) :
      \/ r.kind = "exc"
      \/ /\ r.kind = "json"
         /\ r.ok = Falsy(r.env.error)
         /\ Truthy(r.env.error) =>
              /\ r.env.error = "some_error"
              /\ r.env.error_code # Undef
              /\ r.env.error_description # Undef
         /\ desc \in {"refresh", "signin"} /\ Falsy(r.env.error) =>
              r.env.sub # Undef
         /\ desc = "captcha" /\ Falsy(r.env.error) =>
              r.env.captcha_token = "cap1" }

----------------------------------------------------------------------------
(* TokenStore blob (utils.ts encodeToken / decodeToken) *)

\* LocalStorage entry under TOKEN_STORAGE_KEY
Absent == [state |-> "absent", blob |-> {}]
Garbage == [state |-> "garbage", blob |-> {}]
Stored(blob) == [state |-> "blob", blob |-> blob]

encodeToken_AccessOnly(t) ==
  { <<"access_token", t.access_token>> : x \in IF t.access_token = Undef THEN {} ELSE {1} }

\* JSON.stringify drops the keys whose value is undefined
encodeToken(t) ==
  { <<"access_token", t.access_token>> : x \in IF t.access_token = Undef THEN {} ELSE {1} }
  \cup { <<"refresh_token", t.refresh_token>> : x \in IF t.refresh_token = Undef THEN {} ELSE {1} }

Lookup(blob, key) ==
  IF \E kv \in blob : kv[1] = key
    THEN (CHOOSE kv \in blob : kv[1] = key)[2]
    ELSE Undef

\* (mutant) the two keys are read crosswise
decodeToken_Swapped(blob) ==
  [access_token |-> Lookup(blob, "refresh_token"),
   refresh_token |-> Lookup(blob, "access_token")]

\* JSON.parse of the blob; a missing key reads as undefined
decodeToken(blob) ==
  [access_token |-> Lookup(blob, "access_token"),
   refresh_token |-> Lookup(blob, "refresh_token")]

\* the values a field of a token pair may take: issued tokens, the empty
\* string, and undefined (a pair taken from an answer without tokens)
TokenValues ==
  AccessTokens \cup {RefreshOf(a) : a \in AccessTokens}
    \cup {EarlierToken, RefreshOf(EarlierToken), "", Undef}
TokenPairs ==
  {[access_token |-> a, refresh_token |-> r] : a, r \in TokenValues}

----------------------------------------------------------------------------
(* Frames *)

NoHeaders == [ua |-> <<>>, auth |-> Null, cap |-> Null, dev |-> Null,
              ct |-> Null]
\* the local userInfo of login / refreshAccessToken before the answer
NoTokens == [access_token |-> Undef, refresh_token |-> Undef]
\* config.data of a request that is not a captcha init
NoData == [action |-> "-", device_id |-> "-", meta |-> {}]

Frame(t, st) ==
  [t |-> t, st |-> st, desc |-> "-", attempt |-> 0, lastError |-> NoErr,
   override |-> FALSE, hdr |-> NoHeaders, delay |-> 0,
   local |-> Undef, blob |-> {}, sent |-> 0, cause |-> "-", slept |-> FALSE,
   userInfo |-> NoTokens, args |-> <<>>, data |-> NoData, params |-> {},
   nNow |-> 0, nDelay |-> 0, got16 |-> FALSE]

\* request(config): attempt = 0, lastError = null
RequestFrame(desc, override) ==
  [Frame("request", "loop") EXCEPT !.desc = desc, !.override = override]

Top(M) == M.stack[Len(M.stack)]
Pop(M) == [M EXCEPT !.stack = SubSeq(M.stack, 1, Len(M.stack) - 1)]
Push(M, f) == [M EXCEPT !.stack = Append(M.stack, f)]
SetTop(M, f) == [M EXCEPT !.stack[Len(M.stack)] = f]

\* number of refreshAccessToken activations on a stack
RefreshDepth(s) == Cardinality({i \in 1..Len(s) : s[i].t = "refresh"})

----------------------------------------------------------------------------
(* The run of one operation up to its next suspension.                     *)
(* M = [c: client fields, stack: the operation's frames, res: its result,  *)
(*      fin: request() runs finished in this step, g: its counters]        *)

\* getHeaders(): built from the client fields at the time of the call
getHeaders(c) ==
  [ua   |-> IF Truthy(c.captchaToken)
              THEN <<"device", c.deviceId, OrElse(c.userId, "")>>
              ELSE <<"static">>,
   ct   |-> "json",
   auth |-> IF Truthy(c.accessToken) THEN c.accessToken ELSE Null,
   cap  |-> IF Truthy(c.captchaToken) THEN c.captchaToken ELSE Null,
   dev  |-> IF Truthy(c.deviceId) THEN c.deviceId ELSE Null]

\* login's sign-in request passes its own headers (config.headers)
LoginHeaders == [NoHeaders EXCEPT !.ct = "form"]

\* the top request() frame ends: it is popped and its run is recorded
FinishReq(M, outcome, val, err) ==
  LET f == Top(M) IN
  [Pop(M) EXCEPT !.fin = Append(@,
      [desc |-> f.desc, outcome |-> outcome, val |-> val, err |-> err,
       sent |-> f.sent, cause |-> f.cause, slept |-> f.slept,
       nNow |-> f.nNow, nDelay |-> f.nDelay, got16 |-> f.got16])]

\* (mutant) the exponent counts from one
BackoffDelay_FromOne(attempt) == initialBackoff * 1000 * Pow2(attempt + 1)

\* the delay of the backoff sleep after the failure of attempt `attempt`, ms
BackoffDelay(attempt) == initialBackoff * 1000 * Pow2(attempt)

\* if (attempt < this.maxRetries - 1) await sleep
SleepsAfter(attempt) == attempt < maxRetries - 1

\* (mutant) an envelope counts as a success only under a success status
HasNoError_OnlyOk(r) == Falsy(r.env.error) /\ r.ok

\* (mutant) a body without JSON counts as a success under any status
EmptyIsSuccess_Always(r) == TRUE

\* lines 92 and 99: if (response.ok) return {}
EmptyIsSuccess(r) == r.ok

\* line 105: if (!jsonData.error) return jsonData
HasNoError(r) == Falsy(r.env.error)

\* (mutant) initFromStorage awaits the refresh outside any try block
InitCatches_Never(f) == FALSE

\* the try block of initFromStorage (lines 296-298) encloses frame f
InitCatches(f) == f.t = "initFromStorage" /\ f.st = "refresh"

\* (mutant) the credentials test comes after the error_code 16 test
IsInvalidCredentials_After16(env) ==
  env.error = "invalid_account_or_password" /\ env.error_code # TOKEN_EXPIRED_CODE

\* line 109: jsonData.error === "invalid_account_or_password"
IsInvalidCredentials(env) == env.error = "invalid_account_or_password"

\* (mutant) the remote error_code is dropped
ApiError_NoCode(env) ==
  PikPakError(OrElse(env.error_description, "Unknown Error"), Undef)

\* line 118: new PikPakError(error_description || "Unknown Error", error_code)
ApiError(env) ==
  PikPakError(OrElse(env.error_description, "Unknown Error"), env.error_code)

\* (mutant) only null counts as no refresh token
HoldsNoRefreshToken_OnlyNull(c) == c.refreshToken = Null

\* line 256: !this.refreshToken
HoldsNoRefreshToken(c) == Falsy(c.refreshToken)

\* isLoggedIn(), lines 658-660
isLoggedIn(c) == c.accessToken # Null /\ c.refreshToken # Null

\* (mutant) the phone pattern is tried before the e-mail pattern
LoginMetas_PhoneFirst(username) ==
  IF HasDigitRun(username) THEN {<<"phone_number", Join(username)>>}
  ELSE IF MatchesEmail(username) THEN {<<"email", Join(username)>>}
  ELSE {<<"username", Join(username)>>}

\* lines 208-215: the metas object of login, as its set of key/value pairs
LoginMetas(username) ==
  IF MatchesEmail(username) THEN {<<"email", Join(username)>>}
  ELSE IF HasDigitRun(username) THEN {<<"phone_number", Join(username)>>}
  ELSE {<<"username", Join(username)>>}

\* the meta argument of captchaInit: an object, or undefined
MetaArg(fields) == [given |-> TRUE, fields |-> fields]
NoMetaArg == [given |-> FALSE, fields |-> {}]

\* lines 177-183
defaultMeta(c, timestamp) ==
  { <<"captcha_sign", Join(captchaSign(c.deviceId, timestamp))>>,
    <<"client_version", "1.47.1">>,
    <<"package_name", "com.pikcloud.pikpak">>,
    <<"user_id", OrElse(c.userId, "")>>,
    <<"timestamp", timestamp>> }

LoginAction == "POST:https://" \o PIKPAK_USER_HOST \o "/v1/auth/signin"
FileId == "file1"
\* (mutant) the action names the collection, not the file
FileAction_NoId == "GET:/drive/v1/files/"

\* line 413: `GET:/drive/v1/files/${fileId}`
FileAction == "GET:/drive/v1/files/" \o FileId

\* lines 132-138: the query of the URL holds the params whose value is
\* neither undefined nor null
QueryOf(params) == {kv \in params : Truthy(kv[2])}

\* (mutant) login goes on to the sign-in whatever captchaInit returned
NoCaptchaToken_Unchecked(result) == FALSE

\* line 220: !captchaToken
NoCaptchaToken(result) == Falsy(result.captcha_token)

RECURSIVE Return(_, _), Throw(_, _), HandleCatch(_, _), RequestLoop(_)

\* (mutant) the `continue` after a refresh does not count as an attempt
AfterContinue_SameAttempt(attempt) == attempt

\* lines 152 and 127: `continue` goes to the attempt++ of the for loop
AfterContinue(attempt) == attempt + 1

\* (mutant) the loop allows one attempt more
AttemptsRemain_OneMore(attempt) == attempt <= maxRetries

\* line 127: attempt < this.maxRetries
AttemptsRemain(attempt) == attempt < maxRetries

\* head of the for loop of request(): next attempt, or retries exhausted
RequestLoop(M) ==
  LET f == Top(M) IN
  IF AttemptsRemain(f.attempt)
    THEN SetTop(M, [f EXCEPT !.st = "fetch",
                             !.hdr = IF f.override THEN LoginHeaders
                                                   ELSE getHeaders(M.c),
                             !.sent = @ + 1])
    ELSE LET e == PikPakNetworkError(f.lastError)
         IN  Throw(FinishReq(M, "exhausted", EmptyEnv, e), e)

\* lines 160-163: sleep on a non-final attempt, then the next iteration;
\* nDelay counts the failures of the run that reached these lines
Backoff(M) ==
  LET f == [Top(M) EXCEPT !.nDelay = @ + 1] IN
  IF SleepsAfter(f.attempt)
    THEN SetTop(M, [f EXCEPT !.st = "sleep", !.hdr = NoHeaders,
                             !.delay = BackoffDelay(f.attempt)])
    ELSE RequestLoop(SetTop(M, [f EXCEPT !.st = "loop", !.attempt = @ + 1,
                                         !.slept = FALSE]))

\* the catch block of request(), entered with error e; nNow counts the
\* failures of the run that took the `continue` of line 152
HandleCatch(M, e) ==
  LET f == Top(M) IN
  IF IsRetryError(e)
    THEN IF IncludesTokenRefreshed(e)
           THEN RequestLoop(SetTop(M, [f EXCEPT !.lastError = e, !.st = "loop",
                                       !.attempt = AfterContinue(@),
                                       !.slept = FALSE, !.nNow = @ + 1]))
           ELSE Backoff(SetTop(M, [f EXCEPT !.lastError = e]))
  ELSE IF IsPikPakError(e)
    THEN Throw(FinishReq(M, "throw", EmptyEnv, e), e)
  ELSE Backoff(SetTop(M, [f EXCEPT !.lastError = e]))

\* captchaInit(action, meta) up to the fetch of its request
captchaInit(M, action, meta) ==
  RequestLoop(Push(M,
    [RequestFrame("captcha", FALSE) EXCEPT
       !.data = [action |-> action, device_id |-> M.c.deviceId,
                 meta |-> IF meta.given THEN meta.fields
                                        ELSE defaultMeta(M.c, Now)]]))

\* refreshAccessToken() up to its request
refreshAccessToken(M) ==
  LET M1 == [M EXCEPT !.g.nRefresh = @ + 1] IN
  IF HoldsNoRefreshToken(M.c)
    THEN Throw(M1, PikPakAuthError("No refresh token available"))
    ELSE RequestLoop(Push(Push(M1, Frame("refresh", "request")),
                          RequestFrame("refresh", FALSE)))

\* lines 241-249 and 273-281: take the token pair of the answer, then
\* storeToken() encodes the pair and suspends on LocalStorage.setItem
TakeTokens(M, userInfo) ==
  LET c1 == [M.c EXCEPT !.accessToken = userInfo.access_token,
                        !.refreshToken = userInfo.refresh_token,
                        !.userId = OrElse(userInfo.sub, Null)]
  IN  SetTop([M EXCEPT !.c = c1, !.g.lastIssued = userInfo.access_token],
             [Top(M) EXCEPT !.st = "store",
                            !.userInfo =
                               [access_token |-> userInfo.access_token,
                                refresh_token |-> userInfo.refresh_token],
                            !.blob = encodeToken(
                               [access_token |-> c1.accessToken,
                                refresh_token |-> c1.refreshToken])])

\* line 113-116: handleResponse met error_code 16
OnTokenExpired(M) ==
  refreshAccessToken(
    [SetTop(M, [Top(M) EXCEPT !.st = "refreshing", !.hdr = NoHeaders])
       EXCEPT !.g.nExpired = @ + 1])

\* the awaited callee returned v to the frame on top
Return(M, v) ==
  IF M.stack = <<>> THEN [M EXCEPT !.res.kind = "return", !.res.val = v]
  ELSE
  LET f == Top(M) IN
  CASE f.t = "request" ->
         \* handleResponse line 115, after the awaited refresh
         HandleCatch(M, PikPakRetryError(MsgTokenRefreshed))
    [] f.t = "refresh" /\ f.st = "request" -> TakeTokens(M, v)
    [] f.t = "login" /\ f.st = "captcha" ->
         IF NoCaptchaToken(v)
           THEN Throw(Pop(M), PikPakAuthError("Failed to get captcha token"))
           ELSE RequestLoop(Push(SetTop(M, [f EXCEPT !.st = "signin",
                                                     !.local = v.captcha_token]),
                                 RequestFrame("signin", TRUE)))
    [] f.t = "login" /\ f.st = "signin" -> TakeTokens(M, v)
    [] f.t = "getDownloadUrl" /\ f.st = "captcha" ->
         LET k == OrElse(v.captcha_token, Null) IN
         RequestLoop(Push(SetTop([M EXCEPT !.c.captchaToken = k],
                                 [f EXCEPT !.st = "file", !.local = k]),
                          RequestFrame("file", FALSE)))
    [] f.t = "getDownloadUrl" /\ f.st = "file" ->
         Return(Pop([M EXCEPT !.c.captchaToken = Null]), v)
    [] f.t = "initFromStorage" /\ f.st = "refresh" -> Return(Pop(M), BoolVal(TRUE))
    [] f.t = "storeThenGet" /\ f.st = "store" ->
         \* storeToken(t) resolved: getStoredToken() up to getItem
         Push(SetTop(M, [f EXCEPT !.st = "read"]),
              Frame("getStoredToken", "read"))
    [] OTHER -> Return(Pop(M), v)

\* the awaited callee threw e to the frame on top
Throw(M, e) ==
  IF M.stack = <<>> THEN [M EXCEPT !.res.kind = "throw", !.res.err = e]
  ELSE
  LET f == Top(M) IN
  CASE f.t = "request" ->
         \* the refresh awaited by handleResponse rejected
         HandleCatch(SetTop(M, [f EXCEPT !.cause =
                       IF e.cls = "Error" THEN "store_failed"
                                          ELSE "refresh_failed"]), e)
    [] InitCatches(f) ->
         \* catch { await clearStoredToken(); return false }
         SetTop([M EXCEPT !.res.note = "refresh failed"],
                [f EXCEPT !.st = "clear"])
    [] OTHER -> Throw(Pop(M), e)

\* (mutant) every other error of the envelope starts a refresh
IsTokenExpired_AnyCode(env) == TRUE

\* line 113: data.error_code === TOKEN_EXPIRED_CODE
IsTokenExpired(env) == env.error_code = TOKEN_EXPIRED_CODE

\* handleResponse(response) inside the try block of request()
handleResponse(M, r) ==
  LET f == Top(M)
      env == r.env
      MC(cause) == SetTop(M, [f EXCEPT !.cause = cause])
  IN
  IF r.kind = "exc"
    THEN HandleCatch(MC("exc"), OtherError("fetch failed"))
  ELSE IF r.kind = "nojson"
    THEN IF EmptyIsSuccess(r)
                 THEN Return(FinishReq(M, "return", EmptyEnv, NoErr), EmptyEnv)
                 ELSE HandleCatch(MC("nojson"), PikPakRetryError(MsgEmptyJson))
  ELSE IF HasNoError(r)
    THEN Return(FinishReq(M, "return", env, NoErr), env)
  ELSE IF IsInvalidCredentials(env)
    THEN HandleCatch(MC("fatal"), PikPakAuthError("Invalid username or password"))
  ELSE IF IsTokenExpired(env)
    THEN OnTokenExpired(MC("expired"))
  ELSE HandleCatch(MC("fatal"), ApiError(env))

\* getShareInfo(shareLink, passCode), lines 589-613, up to the fetch of its
\* request
getShareInfo(M, shareLink, passCode) ==
  LET match == ShareLinkMatch(shareLink) IN
  IF ~match.matched
    THEN Throw(Pop(M), PikPakError("Invalid share link", Undef))
    ELSE LET shareId == Join(match.shareId)
             parentId == IF match.parentId = <<>> THEN Undef
                                                  ELSE Join(match.parentId)
         IN  RequestLoop(Push(M,
               [RequestFrame("api", FALSE) EXCEPT !.params = QueryOf(
                  { <<"limit", "100">>, <<"thumbnail_size", "SIZE_LARGE">>,
                    <<"order", "3">>, <<"share_id", shareId>>,
                    <<"parent_id", parentId>>, <<"pass_code", passCode>> })]))

----------------------------------------------------------------------------
(* State *)

\* usernames of the three shapes login tells apart, and others on the
\* borders of its patterns
UserPlain == <<"a", "l", "i", "c", "e">>
UserEmail == <<"u", "s", "e", "r", "@", "e", "x", "a", "m", "p", "l", "e",
               ".", "c", "o", "m">>
UserPhone == <<"1", "3", "8", "0", "0", "0", "0", "0", "0", "0", "0">>
\* ten digits
UserShortNumber == <<"1", "3", "8", "0", "0", "0", "0", "0", "0", "0">>
\* an @ without a dotted domain
UserAtNoDot == <<"a", "@", "b">>
\* an e-mail address whose local part is an 11-digit number
UserPhoneMail == <<"1", "3", "8", "0", "0", "0", "0", "0", "0", "0", "0",
                   "@", "x", ".", "i", "o">>
\* eleven digits inside other text
UserTextPhone == <<"t", "e", "l", ":", "1", "3", "8", "0", "0", "0", "0",
                   "0", "0", "0", "0">>
Usernames == {UserPlain, UserEmail, UserPhone, UserShortNumber, UserAtNoDot,
              UserPhoneMail, UserTextPhone}
Password == <<"p", "w">>

\* the account the client is used with
Credentials == {[username |-> UserPlain, password |-> Password]}
\* login() called with any of the usernames
LoginInputs == {[username |-> u, password |-> Password] : u \in Usernames}

\* share links: the two of the spec's scenario, and others around the
\* pattern of getShareInfo
Chars(str) == CASE str = "https://host" ->
                     <<"h", "t", "t", "p", "s", ":", "/", "/", "h", "o", "s", "t">>
                [] str = "not-a-share-link" ->
                     <<"n", "o", "t", "-", "a", "-", "s", "h", "a", "r", "e",
                       "-", "l", "i", "n", "k">>
                [] str = "abc123" -> <<"a", "b", "c", "1", "2", "3">>
                [] str = "/s/" -> <<"/", "s", "/">>
                [] str = "/xyz" -> <<"/", "x", "y", "z">>
                [] str = "/mid" -> <<"/", "m", "i", "d">>
                [] str = "/" -> <<"/">>
                [] str = "/x/" -> <<"/", "x", "/">>
LinkNested == Chars("https://host") \o Chars("/s/") \o Chars("abc123")
                \o Chars("/xyz")
LinkPlain == Chars("https://host") \o Chars("/s/") \o Chars("abc123")
LinkDeep == Chars("https://host") \o Chars("/s/") \o Chars("abc123")
              \o Chars("/mid") \o Chars("/xyz")
LinkNotShare == Chars("not-a-share-link")
LinkOtherPath == Chars("https://host") \o Chars("/x/") \o Chars("abc123")
LinkNoId == Chars("https://host") \o Chars("/s/")
LinkTrailingSlash == Chars("https://host") \o Chars("/s/") \o Chars("abc123")
                       \o Chars("/")
LinkPathOnly == Chars("/s/") \o Chars("abc123") \o Chars("/xyz")
ShareLinks == {LinkNested, LinkPlain, LinkDeep, LinkNotShare, LinkOtherPath,
               LinkNoId, LinkTrailingSlash, LinkPathOnly}
PassCodes == {"1234"}

\* generateDeviceId(): a random value per client instance
RandomDeviceIds == {"random", "random2"}

\* op: the operation; kind: "none" while it runs, then "return" or "throw";
\* wasLoggedIn: isLoggedIn() when it was called
NoRes == [op |-> "-", kind |-> "none", val |-> EmptyEnv, err |-> NoErr,
          wasLoggedIn |-> FALSE, note |-> "-"]
NoResp == [kind |-> "none", ok |-> FALSE, env |-> EmptyEnv]
\* what happened in the last step of a call site: error_code-16 envelopes
\* handled, refreshAccessToken() calls made by the user and in all, the
\* response received if its envelope had no error (lastResp) or reported one
\* other than an expired token (lastFail), or what came when no envelope
\* did (lastOther); and the access token of the latest answer its
\* refreshAccessToken() took
NoCnt == [nExpired |-> 0, nRefresh |-> 0, nDirect |-> 0, lastIssued |-> Undef,
          lastResp |-> NoResp, lastFail |-> NoResp, lastOther |-> NoResp]
StepCnt(g) == [NoCnt EXCEPT !.lastIssued = g.lastIssued]

\* a captchaSign computation: its arguments and the string it returned
NoCall == [deviceId |-> "-", timestamp |-> "-", out |-> <<>>]
NoSig == [last |-> NoCall, prev |-> NoCall]

\* usePikPak before it is mounted: the initial values of its useState calls
\* (lines 21-24).  cred: the preferences hold a username and a password;
\* pc: the position of initClient; call: the login()/logout() of the hook
\* that is in flight; result: how the latest one ended, ready: whether
\* isLoading was false when it was called
NoHook ==
  [pc |-> "unmounted", cred |-> FALSE, client |-> Null, isLoggedIn |-> FALSE,
   isLoading |-> TRUE, error |-> Null, call |-> "-", result |-> "-",
   ready |-> FALSE, toast |-> "-", calls |-> 0]

\* useDetailPrefetch and the search detail view before they are mounted
NoPrefetch == [mounted |-> FALSE]
NoMagnet == [mounted |-> FALSE]

\* no view of the extension is mounted
NoView == hook = NoHook /\ prefetch = NoPrefetch /\ magnet = NoMagnet

\* the stack of a call site that never issues an operation
NotStarted == <<Frame("none", "never")>>

\* constructor, lines 43-55; the TokenStore holds whatever an earlier
\* session left in it
Constructed ==
  [accessToken |-> Null, refreshToken |-> Null, userId |-> Null,
   deviceId |-> "random", captchaToken |-> Null]

\* one call site: operations run one after the other
Init ==
  /\ client = Constructed
  /\ store \in {Absent, Garbage,
                Stored(encodeToken([access_token |-> EarlierToken,
                                    refresh_token |-> RefreshOf(EarlierToken)]))}
  /\ stack = [p \in Procs |-> IF p = "p1" THEN <<>> ELSE NotStarted]
  /\ budget = [p \in Procs |-> -1]
  /\ res = [p \in Procs |-> NoRes]
  /\ fin = [p \in Procs |-> <<>>]
  /\ cnt = [p \in Procs |-> NoCnt]
  /\ sig = NoSig
  /\ NoView

\* two call sites whose operations overlap, on a client that
\* initFromStorage() has restored: the session the refresh returned is in
\* memory and in the TokenStore
InitConc ==
  /\ \E a \in AccessTokens :
       /\ client = [Constructed EXCEPT !.accessToken = a,
                                       !.refreshToken = RefreshOf(a),
                                       !.userId = UserSub]
       /\ store = Stored(encodeToken([access_token |-> a,
                                      refresh_token |-> RefreshOf(a)]))
  /\ stack = [p \in Procs |-> <<>>]
  /\ budget = [p \in Procs |-> OpsPerSite]
  /\ res = [p \in Procs |-> NoRes]
  /\ fin = [p \in Procs |-> <<>>]
  /\ cnt = [p \in Procs |-> NoCnt]
  /\ sig = NoSig
  /\ NoView

\* one call site on a client instance that may log in with any username
InitLogin ==
  /\ \E d \in RandomDeviceIds : client = [Constructed EXCEPT !.deviceId = d]
  /\ store \in {Absent,
                Stored(encodeToken([access_token |-> EarlierToken,
                                    refresh_token |-> RefreshOf(EarlierToken)]))}
  /\ stack = [p \in Procs |-> IF p = "p1" THEN <<>> ELSE NotStarted]
  /\ budget = [p \in Procs |-> -1]
  /\ res = [p \in Procs |-> NoRes]
  /\ fin = [p \in Procs |-> <<>>]
  /\ cnt = [p \in Procs |-> NoCnt]
  /\ sig = NoSig
  /\ NoView

\* captchaSign on its own: no operation of the client runs
InitSign ==
  /\ client = Constructed
  /\ store = Absent
  /\ stack = [p \in Procs |-> NotStarted]
  /\ budget = [p \in Procs |-> 0]
  /\ res = [p \in Procs |-> NoRes]
  /\ fin = [p \in Procs |-> <<>>]
  /\ cnt = [p \in Procs |-> NoCnt]
  /\ sig = NoSig
  /\ NoView

\* one call site that runs facade operations, on a fresh client or on one
\* that holds the session an earlier login left
InitShare ==
  /\ \/ client = Constructed /\ store = Absent
     \/ /\ client = [Constructed EXCEPT !.accessToken = EarlierToken,
                                        !.refreshToken = RefreshOf(EarlierToken),
                                        !.userId = UserSub]
        /\ store = Stored(encodeToken(
                      [access_token |-> EarlierToken,
                       refresh_token |-> RefreshOf(EarlierToken)]))
  /\ stack = [p \in Procs |-> IF p = "p1" THEN <<>> ELSE NotStarted]
  /\ budget = [p \in Procs |-> -1]
  /\ res = [p \in Procs |-> NoRes]
  /\ fin = [p \in Procs |-> <<>>]
  /\ cnt = [p \in Procs |-> NoCnt]
  /\ sig = NoSig
  /\ NoView

\* the TokenStore functions of auth.ts used on their own
InitToken ==
  /\ client = Constructed
  /\ store \in {Absent, Garbage}
  /\ stack = [p \in Procs |-> IF p = "p1" THEN <<>> ELSE NotStarted]
  /\ budget = [p \in Procs |-> -1]
  /\ res = [p \in Procs |-> NoRes]
  /\ fin = [p \in Procs |-> <<>>]
  /\ cnt = [p \in Procs |-> NoCnt]
  /\ sig = NoSig
  /\ NoView

Idle(p) == stack[p] = <<>>

\* call site p starts an operation
Begin(p) ==
  /\ Idle(p)
  /\ budget[p] # 0
  /\ budget' = [budget EXCEPT ![p] = IF @ > 0 THEN @ - 1 ELSE @]

\* the run of operation op of p, started from frames s
Start(p, op, s) ==
  [c |-> client, stack |-> s,
   res |-> [NoRes EXCEPT !.op = op, !.wasLoggedIn = isLoggedIn(client)],
   fin |-> <<>>, g |-> NoCnt]

\* the run of p resumed by an I/O completion
Resume(p) ==
  [c |-> client, stack |-> stack[p], res |-> res[p], fin |-> <<>>,
   g |-> StepCnt(cnt[p])]

Apply(p, M) ==
  /\ client' = M.c
  /\ stack' = [stack EXCEPT ![p] = M.stack]
  /\ res' = [res EXCEPT ![p] = M.res]
  /\ fin' = [q \in Procs |-> IF q = p THEN M.fin ELSE <<>>]
  /\ cnt' = [q \in Procs |-> IF q = p THEN M.g
                                     ELSE StepCnt(cnt[q])]
  /\ sig' = sig
  /\ UNCHANGED <<hook, prefetch, magnet>>

----------------------------------------------------------------------------
(* Operations *)

\* a facade operation that is one request(): addOfflineTask, listFiles, ...
CallFacade(p) ==
  /\ Begin(p)
  /\ Apply(p, RequestLoop(Start(p, "facade",
                 <<Frame("facade", "request"), RequestFrame("api", FALSE)>>)))
  /\ UNCHANGED store

\* getDownloadUrl(fileId) up to the fetch of captchaInit
CallGetDownloadUrl(p) ==
  /\ Begin(p)
  /\ Apply(p, captchaInit(Start(p, "getDownloadUrl",
                            <<Frame("getDownloadUrl", "captcha")>>),
                          FileAction, NoMetaArg))
  /\ UNCHANGED store

\* login(username, password) up to the fetch of captchaInit
login(p, username, password) ==
  LET M0 == Start(p, "login",
                  <<[Frame("login", "captcha") EXCEPT
                       !.args = <<username, password>>]>>)
      M1 == [M0 EXCEPT !.c.deviceId =
                generateDeviceIdFromCredentials(username, password)]
  IN  captchaInit(M1, LoginAction, MetaArg(LoginMetas(username)))

\* login() with the credentials of the account
CallLogin(p) ==
  /\ Begin(p)
  /\ \E cr \in Credentials : Apply(p, login(p, cr.username, cr.password))
  /\ UNCHANGED store

\* login() with any username
CallLoginAs(p) ==
  /\ Begin(p)
  /\ \E cr \in LoginInputs : Apply(p, login(p, cr.username, cr.password))
  /\ UNCHANGED store

\* refreshAccessToken() called by the user of the client
CallRefresh(p) ==
  /\ Begin(p)
  /\ Apply(p, refreshAccessToken(
                [Start(p, "refreshAccessToken", <<>>) EXCEPT !.g.nDirect = 1]))
  /\ UNCHANGED store

\* initFromStorage() up to LocalStorage.getItem
CallInitFromStorage(p) ==
  /\ Begin(p)
  /\ Apply(p, Start(p, "initFromStorage", <<Frame("initFromStorage", "get")>>))
  /\ UNCHANGED store

LoggedOut_KeepsRefresh(c) ==
  [c EXCEPT !.accessToken = Null, !.userId = Null]

\* the three assignments of logout(), lines 309-311
LoggedOut(c) ==
  [c EXCEPT !.accessToken = Null, !.refreshToken = Null, !.userId = Null]

\* logout() up to LocalStorage.removeItem
CallLogout(p) ==
  /\ Begin(p)
  /\ LET M0 == Start(p, "logout", <<Frame("logout", "clear")>>)
     IN  Apply(p, [M0 EXCEPT !.c = LoggedOut(@)])
  /\ UNCHANGED store

----------------------------------------------------------------------------
(* I/O completions *)

\* the envelope makes handleResponse start a refresh
AsksRefresh(r) ==
  /\ r.kind = "json"
  /\ Truthy(r.env.error)
  /\ ~IsInvalidCredentials(r.env)
  /\ r.env.error_code = TOKEN_EXPIRED_CODE

\* the answer is an envelope whose error_code is that of the expired token
Got16(r) == r.kind = "json" /\ r.env.error_code = TOKEN_EXPIRED_CODE

\* fetch settles with r for the request on top of p's stack; the frame of
\* the request notes whether any of its answers had error_code 16.  The
\* refreshes started inside one another are followed down to depth nest.
SettleWithin(p, r, nest) ==
  /\ AsksRefresh(r) => RefreshDepth(stack[p]) < nest
  /\ Apply(p, handleResponse(
       [Resume(p) EXCEPT
          !.stack[Len(stack[p])].got16 = @ \/ Got16(r),
          !.g.lastResp = IF r.kind = "json" /\ Falsy(r.env.error)
                           THEN r ELSE NoResp,
          !.g.lastFail = IF /\ r.kind = "json" /\ Truthy(r.env.error)
                             /\ \/ r.env.error = "invalid_account_or_password"
                                \/ r.env.error_code # TOKEN_EXPIRED_CODE
                           THEN r ELSE NoResp,
          !.g.lastOther = IF r.kind \in {"exc", "nojson"} THEN r ELSE NoResp],
       r))
  /\ UNCHANGED <<store, budget>>

Settle(p, r) == SettleWithin(p, r, MaxNest)

Fetching(p) == ~Idle(p) /\ stack[p][Len(stack[p])].st = "fetch"

Respond(p) ==
  /\ Fetching(p)
  /\ \E r \in Responses(stack[p][Len(stack[p])].desc) : Settle(p, r)

\* the same, refreshes inside refreshes followed down to MaxDepth
RespondDeep(p) ==
  /\ Fetching(p)
  /\ \E r \in Responses(stack[p][Len(stack[p])].desc) :
       SettleWithin(p, r, MaxDepth)

\* a server that hands out a new token pair at each refresh and answers the
\* other requests with a payload or with error_code 16
RaceTokens == {"at1", "at2"}
RaceResponses(desc) ==
  IF desc = "refresh"
    THEN { [kind |-> "json", ok |-> TRUE,
            env |-> [EmptyEnv EXCEPT !.access_token = n,
                                     !.refresh_token = RefreshOf(n),
                                     !.sub = UserSub]] : n \in RaceTokens }
    ELSE { [kind |-> "json", ok |-> FALSE,
            env |-> [EmptyEnv EXCEPT !.error = "some_error",
                                     !.error_code = TOKEN_EXPIRED_CODE,
                                     !.error_description = "remote description"]],
           [kind |-> "json", ok |-> TRUE,
            env |-> [EmptyEnv EXCEPT !.data = "payload"]] }

RespondRace(p) ==
  /\ Fetching(p)
  /\ \E r \in RaceResponses(stack[p][Len(stack[p])].desc) : Settle(p, r)

\* the same, the server answering with well-formed envelopes only
RespondWellFormed(p) ==
  /\ Fetching(p)
  /\ \E r \in WellFormed(stack[p][Len(stack[p])].desc) : Settle(p, r)

\* the backoff timer fires
Timer(p) ==
  /\ ~Idle(p)
  /\ stack[p][Len(stack[p])].st = "sleep"
  /\ LET M == Resume(p)
     IN  Apply(p, RequestLoop(SetTop(M, [Top(M) EXCEPT !.st = "loop",
                                           !.delay = 0, !.slept = TRUE,
                                           !.attempt = @ + 1])))
  /\ UNCHANGED <<store, budget>>

\* LocalStorage.setItem of storeToken settles: it resolves (ok) or rejects
SetItemSettles(p, ok) ==
  /\ ~Idle(p)
  /\ stack[p][Len(stack[p])].st = "store"
  /\ LET M == Resume(p) IN
     IF ok
       THEN /\ store' = Stored(Top(M).blob)
            /\ Apply(p, Return(Pop(M), Void))
       ELSE /\ store' = store
            /\ Apply(p, Throw(Pop(M), OtherError("LocalStorage failure")))
  /\ UNCHANGED budget

SetItemDone(p) == \E ok \in BOOLEAN : SetItemSettles(p, ok)

\* the same on a LocalStorage whose writes succeed
SetItemStored(p) == SetItemSettles(p, TRUE)

\* getStoredToken(): null when the entry is absent, when getItem rejects
\* and when the blob does not decode
getStoredToken(ok) ==
  IF ok /\ store.state = "blob" THEN decodeToken(store.blob)
  ELSE [access_token |-> Null, refresh_token |-> Null]
GotToken(ok) == ok /\ store.state = "blob"

\* LocalStorage.getItem of getStoredToken settles, lines 288-297
GetItemDone(p) ==
  /\ ~Idle(p)
  /\ stack[p][Len(stack[p])].st = "get"
  /\ \E ok \in BOOLEAN :
       LET M == Resume(p) IN
       IF ~GotToken(ok)
         THEN Apply(p, Return(Pop(M), BoolVal(FALSE)))
         ELSE LET token == getStoredToken(ok)
                  M1 == [M EXCEPT !.c.accessToken = token.access_token,
                                  !.c.refreshToken = token.refresh_token,
                                  !.g.nDirect = 1]
              IN  Apply(p, refreshAccessToken(
                             SetTop(M1, [Top(M1) EXCEPT !.st = "refresh"])))
  /\ UNCHANGED <<store, budget>>

\* LocalStorage.removeItem of clearStoredToken settles; a failure is logged
\* and swallowed
RemoveItemDone(p) ==
  /\ ~Idle(p)
  /\ stack[p][Len(stack[p])].st = "clear"
  /\ \E ok \in BOOLEAN :
       LET M == Resume(p)
           f == Top(M) IN
       /\ store' = IF ok THEN Absent ELSE store
       /\ Apply(p, Return(Pop(M), IF f.t = "initFromStorage"
                                    THEN BoolVal(FALSE) ELSE Void))
  /\ UNCHANGED budget

\* getShareInfo(shareLink, passCode) with any of the links; the link is
\* noted with the result
CallGetShareInfo(p) ==
  /\ Begin(p)
  /\ \E shareLink \in ShareLinks : \E passCode \in PassCodes :
       LET M0 == Start(p, "getShareInfo",
                       <<[Frame("getShareInfo", "request") EXCEPT
                            !.args = <<shareLink, passCode>>]>>)
       IN  Apply(p, getShareInfo([M0 EXCEPT !.res.note = Join(shareLink)],
                                 shareLink, passCode))
  /\ UNCHANGED store

\* await storeToken(t); await getStoredToken(): storeToken up to setItem
CallStoreThenGet(p) ==
  /\ Begin(p)
  /\ \E t \in TokenPairs :
       Apply(p, Start(p, "storeThenGet",
                      << [Frame("storeThenGet", "store") EXCEPT !.userInfo = t],
                         [Frame("storeToken", "store") EXCEPT
                            !.blob = encodeToken(t)] >>))
  /\ UNCHANGED store

\* LocalStorage.getItem of a getStoredToken() called on its own settles,
\* auth.ts 11-25
GetStoredTokenDone(p) ==
  /\ ~Idle(p)
  /\ stack[p][Len(stack[p])].st = "read"
  /\ \E ok \in BOOLEAN :
       Apply(p, Return(Pop(Resume(p)),
                       IF GotToken(ok) THEN TokenVal(getStoredToken(ok))
                                       ELSE NullVal))
  /\ UNCHANGED <<store, budget>>

Next ==
  \E p \in Procs :
    \/ CallFacade(p)
    \/ CallGetDownloadUrl(p)
    \/ CallLogin(p)
    \/ CallRefresh(p)
    \/ CallInitFromStorage(p)
    \/ CallLogout(p)
    \/ Respond(p)
    \/ Timer(p)
    \/ SetItemDone(p)
    \/ GetItemDone(p)
    \/ RemoveItemDone(p)

Spec == Init /\ [][Next]_vars

\* two call sites sharing the client, against a well-formed server
NextConc ==
  \E p \in Procs :
    \/ CallFacade(p)
    \/ CallGetDownloadUrl(p)
    \/ CallRefresh(p)
    \/ CallLogout(p)
    \/ RespondWellFormed(p)
    \/ Timer(p)
    \/ SetItemDone(p)
    \/ RemoveItemDone(p)

SpecConc == InitConc /\ [][NextConc]_vars

\* one call site, any username, against a well-formed server
NextLogin ==
  \E p \in Procs :
    \/ CallLoginAs(p)
    \/ CallFacade(p)
    \/ CallGetDownloadUrl(p)
    \/ CallRefresh(p)
    \/ CallInitFromStorage(p)
    \/ CallLogout(p)
    \/ RespondWellFormed(p)
    \/ Timer(p)
    \/ SetItemDone(p)
    \/ GetItemDone(p)
    \/ RemoveItemDone(p)

SpecLogin == InitLogin /\ [][NextLogin]_vars

\* the facade operations, getShareInfo with any link among them
NextShare ==
  \E p \in Procs :
    \/ CallGetShareInfo(p)
    \/ CallFacade(p)
    \/ CallGetDownloadUrl(p)
    \/ Respond(p)
    \/ Timer(p)
    \/ SetItemDone(p)

SpecShare == InitShare /\ [][NextShare]_vars

\* one facade operation after the other on a client that holds a session,
\* the refreshes that the refresh endpoint's own error_code 16 starts
\* followed down to MaxDepth
NextNest ==
  \E p \in Procs :
    \/ CallFacade(p)
    \/ RespondDeep(p)
    \/ Timer(p)
    \/ SetItemDone(p)

SpecNest == InitShare /\ [][NextNest]_vars

\* two call sites whose facade operations overlap on a restored session, the
\* server handing out new token pairs and every TokenStore write succeeding
NextRace ==
  \E p \in Procs :
    \/ CallFacade(p)
    \/ RespondRace(p)
    \/ SetItemStored(p)

SpecRace == InitConc /\ [][NextRace]_vars

----------------------------------------------------------------------------
(* usePikPak (lib/hooks/usePikPak.ts) with the PikPakClient seen through    *)
(* the outcomes of its operations                                          *)

\* no operation of the PikPakClient instance itself is modelled here
ClientAside ==
  /\ client = Constructed
  /\ store = Absent
  /\ stack = [p \in Procs |-> NotStarted]
  /\ budget = [p \in Procs |-> 0]
  /\ res = [p \in Procs |-> NoRes]
  /\ fin = [p \in Procs |-> <<>>]
  /\ cnt = [p \in Procs |-> NoCnt]
  /\ sig = NoSig

\* the effect of lines 27-63 has run up to `await initFromStorage()`
InitHook ==
  /\ ClientAside
  /\ \E cred \in BOOLEAN :
       hook = [NoHook EXCEPT !.pc = "restoring", !.cred = cred]
  /\ prefetch = NoPrefetch
  /\ magnet = NoMagnet

\* how client.login() ends: it resolves, or rejects with an error
LoginOutcomes == {"resolved", "PikPakAuthError", "PikPakNetworkError"}

\* err.message of the errors of client.login()
MessageOf(outcome) ==
  IF outcome = "PikPakAuthError" THEN "Invalid username or password"
                                 ELSE "Max retries reached"

\* lines 53-59: catch { setError(message) } finally { setIsLoading(false) }
InitFailed(h, outcome) ==
  [h EXCEPT !.error = MessageOf(outcome), !.isLoading = FALSE, !.pc = "done"]

\* initFromStorage() resolves with success (it never rejects), lines 36-52
InitFromStorageSettles ==
  /\ hook.pc = "restoring"
  /\ \E success \in BOOLEAN :
       hook' = IF success
                 THEN [hook EXCEPT !.client = "client", !.isLoggedIn = TRUE,
                                   !.isLoading = FALSE, !.pc = "done"]
               ELSE IF hook.cred
                 THEN [hook EXCEPT !.pc = "autologin"]
               ELSE [hook EXCEPT !.client = "client", !.isLoggedIn = FALSE,
                                 !.isLoading = FALSE, !.pc = "done"]
  /\ UNCHANGED <<client, store, stack, budget, res, fin, cnt, sig,
                 prefetch, magnet>>

\* the login() of initClient settles, lines 45-47 and 53-59
AutoLoginSettles ==
  /\ hook.pc = "autologin"
  /\ \E outcome \in LoginOutcomes :
       hook' = IF outcome = "resolved"
                 THEN [hook EXCEPT !.client = "client", !.isLoggedIn = TRUE,
                                   !.isLoading = FALSE, !.pc = "done"]
                 ELSE InitFailed(hook, outcome)
  /\ UNCHANGED <<client, store, stack, budget, res, fin, cnt, sig,
                 prefetch, magnet>>

\* login() of the hook up to `await client.login()`, lines 66-80; by: the
\* init effect of PikPakCommand (pikpak.tsx 45-59), which waits for
\* isLoading to be false and calls it when not logged in and credentials
\* are configured, or any other caller at any time
UseLogin ==
  /\ hook.call = "-"
  /\ hook.calls < MaxCalls
  /\ \E by \in {"effect", "user"} :
       /\ by = "effect" =>
            ~hook.isLoading /\ ~hook.isLoggedIn /\ hook.cred
       /\ LET h == [hook EXCEPT !.calls = @ + 1, !.ready = ~hook.isLoading]
          IN  hook' =
                IF h.client = Null
                  THEN [h EXCEPT !.result = "Client not initialized"]
                ELSE IF ~h.cred
                  THEN [h EXCEPT !.result = "credentials not configured"]
                ELSE [h EXCEPT !.isLoading = TRUE, !.error = Null,
                               !.call = "login", !.result = "-"]
  /\ UNCHANGED <<client, store, stack, budget, res, fin, cnt, sig,
                 prefetch, magnet>>

\* client.login() of the hook's login() settles, lines 82-109
UseLoginSettles ==
  /\ hook.call = "login"
  /\ \E outcome \in LoginOutcomes :
       hook' =
         IF outcome = "resolved"
           THEN [hook EXCEPT !.isLoggedIn = TRUE, !.toast = "login succeeded",
                             !.isLoading = FALSE, !.call = "-",
                             !.result = "resolved"]
           ELSE [hook EXCEPT !.error =
                               IF outcome = "PikPakAuthError"
                                 THEN "wrong username or password"
                                 ELSE MessageOf(outcome),
                             !.isLoggedIn = FALSE, !.toast = "login failed",
                             !.isLoading = FALSE, !.call = "-",
                             !.result = outcome]
  /\ UNCHANGED <<client, store, stack, budget, res, fin, cnt, sig,
                 prefetch, magnet>>

\* logout() of the hook up to `await client.logout()`, lines 113-118
UseLogout ==
  /\ hook.call = "-"
  /\ hook.calls < MaxCalls
  /\ LET h == [hook EXCEPT !.calls = @ + 1, !.ready = ~hook.isLoading]
     IN  hook' = IF h.client = Null
                   THEN [h EXCEPT !.result = "resolved"]
                   ELSE [h EXCEPT !.isLoading = TRUE, !.call = "logout",
                                  !.result = "-"]
  /\ UNCHANGED <<client, store, stack, budget, res, fin, cnt, sig,
                 prefetch, magnet>>

\* client.logout() settles, lines 118-132: a failure is shown and swallowed
UseLogoutSettles ==
  /\ hook.call = "logout"
  /\ \E ok \in BOOLEAN :
       hook' = IF ok
                 THEN [hook EXCEPT !.isLoggedIn = FALSE, !.toast = "logged out",
                                   !.isLoading = FALSE, !.call = "-",
                                   !.result = "resolved"]
                 ELSE [hook EXCEPT !.toast = "logout failed",
                                   !.isLoading = FALSE, !.call = "-",
                                   !.result = "resolved"]
  /\ UNCHANGED <<client, store, stack, budget, res, fin, cnt, sig,
                 prefetch, magnet>>

NextHook ==
  \/ InitFromStorageSettles
  \/ AutoLoginSettles
  \/ UseLogin
  \/ UseLoginSettles
  \/ UseLogout
  \/ UseLogoutSettles

SpecHook == InitHook /\ [][NextHook]_vars

----------------------------------------------------------------------------
(* useDetailPrefetch (lib/hooks/useDetailPrefetch.ts)                      *)

\* strings whose characters the code inspects are sequences of characters
MIKAN_BASE ==
  <<"h", "t", "t", "p", "s", ":", "/", "/", "m", "i", "k", "a",
   "n", "a", "n", "i", ".", "m", "e">>

\* the links of the detail pages, and the items of the list: the id of an
\* item is its guid, or its link when it has none; two items share a link
Links == {"L1", "L2", "L3"}
ItemIds == {"g1", "g2", "L3", "g4"}
LinkOfItem(id) ==
  CASE id = "g1" -> "L1" [] id = "g2" -> "L2" [] id = "L3" -> "L3"
    [] id = "g4" -> "L1"
\* what onSelectionChange may pass: an id of the list, null, an id that is
\* not in the list
Selections == ItemIds \cup {Null, "gone"}

\* what the three patterns find in the html of a detail page (cover <<>>:
\* no match)
Pages ==
  { [cover |-> <<"/", "c", ".", "j", "p", "g">>, size |-> "700MB", magnet |-> "magnet:1"],
    [cover |-> <<"h", ":", "c", ".", "j", "p", "g">>, size |-> Undef, magnet |-> "magnet:2"],
    [cover |-> <<>>, size |-> Undef, magnet |-> Null] }

\* lines 61-73: the DetailCache entry made of a page
DetailOf(page) ==
  [cached |-> TRUE,
   coverUrl |-> IF page.cover # <<>> /\ Head(page.cover) = "/"
                  THEN MIKAN_BASE \o page.cover ELSE page.cover,
   fileSize |-> page.size,
   magnet |-> page.magnet]
NoDetail == [cached |-> FALSE, coverUrl |-> <<>>, fileSize |-> Undef,
             magnet |-> Null]
NoItem == [coverUrl |-> <<>>, fileSize |-> Undef]

\* the refs after mount (lines 22-29) and the items as the list loaded them;
\* flights: the handleSelectionChange runs suspended on fetch() or on
\* res.text(), each with its link and its currentToken
InitPrefetch ==
  /\ ClientAside
  /\ hook = NoHook
  /\ magnet = NoMagnet
  /\ prefetch = [mounted |-> TRUE,
                 cache |-> [l \in Links |-> NoDetail],
                 pending |-> {},
                 token |-> 0,
                 flights |-> {},
                 items |-> [id \in ItemIds |-> NoItem]]

\* (mutant) the pending set is not consulted
MayFetch_IgnoresPending(pf, link) == ~pf.cache[link].cached

\* lines 49-50: neither cached nor pending
MayFetch(pf, link) == ~pf.cache[link].cached /\ link \notin pf.pending

\* (mutant) every response is taken for the current one
IsCurrent_Always(pf, fl) == TRUE

\* line 59: requestTokenRef.current === currentToken
IsCurrent(pf, fl) == pf.token = fl.token

\* lines 82-84: finally { pendingRef.current.delete(link) }, the run ends
Finally(pf, fl) ==
  [pf EXCEPT !.pending = @ \ {fl.link}, !.flights = @ \ {fl}]

\* handleSelectionChange(itemId) up to `await fetch(link)`, lines 39-56
handleSelectionChange(itemId) ==
  /\ prefetch.token < MaxFetches
  /\ prefetch' =
       IF itemId = Null \/ itemId \notin ItemIds THEN prefetch
       ELSE LET link == LinkOfItem(itemId) IN
            IF ~MayFetch(prefetch, link) THEN prefetch
            ELSE [prefetch EXCEPT
                    !.token = @ + 1,
                    !.pending = @ \cup {link},
                    !.flights = @ \cup {[link |-> link, token |-> prefetch.token + 1,
                                         stage |-> "fetch"]}]
  /\ UNCHANGED <<client, store, stack, budget, res, fin, cnt, sig,
                 hook, magnet>>

Select == \E itemId \in Selections : handleSelectionChange(itemId)

\* fetch(link) settles, lines 56-58: a response that is ok goes on to
\* res.text(); an HTTP error and a rejection go to catch and finally
FetchSettles ==
  /\ prefetch.mounted
  /\ \E fl \in prefetch.flights : \E outcome \in {"ok", "http error", "rejected"} :
       /\ fl.stage = "fetch"
       /\ prefetch' =
            IF outcome = "ok"
              THEN [prefetch EXCEPT !.flights =
                      (@ \ {fl}) \cup {[fl EXCEPT !.stage = "text"]}]
              ELSE Finally(prefetch, fl)
  /\ UNCHANGED <<client, store, stack, budget, res, fin, cnt, sig,
                 hook, magnet>>

\* res.text() settles, lines 58-84
TextSettles ==
  /\ prefetch.mounted
  /\ \E fl \in prefetch.flights : \E ok \in BOOLEAN : \E page \in Pages :
       /\ fl.stage = "text"
       /\ prefetch' =
            IF ~ok \/ ~IsCurrent(prefetch, fl) THEN Finally(prefetch, fl)
            ELSE LET d == DetailOf(page) IN
                 Finally([prefetch EXCEPT
                            !.cache[fl.link] = d,
                            !.items = [id \in ItemIds |->
                                         IF LinkOfItem(id) = fl.link
                                           THEN [coverUrl |-> d.coverUrl,
                                                 fileSize |-> d.fileSize]
                                           ELSE @[id]]],
                         fl)
  /\ UNCHANGED <<client, store, stack, budget, res, fin, cnt, sig,
                 hook, magnet>>

NextPrefetch == Select \/ FetchSettles \/ TextSettles

SpecPrefetch == InitPrefetch /\ [][NextPrefetch]_vars

----------------------------------------------------------------------------
(* getMagnetLink of the search detail view (anime-search.tsx)              *)

\* detail pages: the first two contain a magnet link, the third none
DetailUrls == {"U1", "U2", "U3"}
PageMagnet(url) ==
  CASE url = "U1" -> "magnet:U1" [] url = "U2" -> "magnet:U2" [] url = "U3" -> Null

\* the callbacks that await getMagnetLink: each has one call in flight at
\* most, and they run side by side
Callers == {"handleAction", "handleCopyAllMagnets"}

\* what a caller got: from the cache, null because a fetch of the url was
\* pending, the result of its own fetch, or null because its fetch failed
NoGot == [url |-> "-", val |-> Null, how |-> "-"]

\* magnetCacheRef and pendingRef after mount (lines 220-221); undefined: no
\* entry
InitMagnet ==
  /\ ClientAside
  /\ hook = NoHook
  /\ prefetch = NoPrefetch
  /\ magnet = [mounted |-> TRUE,
               cache |-> [u \in DetailUrls |-> Undef],
               pending |-> {},
               flights |-> {},
               got |-> [c \in Callers |-> NoGot],
               calls |-> 0]

\* the run of getMagnetLink ends: finally { pendingRef.current.delete(url) }
MagnetEnds(m, fl, val, how) ==
  [m EXCEPT !.pending = @ \ {fl.url}, !.flights = @ \ {fl},
            !.got[fl.caller] = [url |-> fl.url, val |-> val, how |-> how]]

\* getMagnetLink(detailUrl) called by caller, up to `await fetch(detailUrl)`,
\* lines 269-283
getMagnetLink(caller, detailUrl) ==
  /\ magnet.mounted
  /\ magnet.calls < MaxMagnetCalls
  /\ \A fl \in magnet.flights : fl.caller # caller
  /\ LET m == [magnet EXCEPT !.calls = @ + 1] IN
     magnet' =
       IF m.cache[detailUrl] # Undef
         THEN [m EXCEPT !.got[caller] = [url |-> detailUrl,
                                         val |-> m.cache[detailUrl],
                                         how |-> "cache"]]
       ELSE IF detailUrl \in m.pending
         THEN [m EXCEPT !.got[caller] = [url |-> detailUrl, val |-> Null,
                                         how |-> "pending"]]
       ELSE [m EXCEPT !.pending = @ \cup {detailUrl},
                      !.flights = @ \cup {[url |-> detailUrl, caller |-> caller,
                                           stage |-> "fetch"]},
                      !.got[caller] = NoGot]
  /\ UNCHANGED <<client, store, stack, budget, res, fin, cnt, sig,
                 hook, prefetch>>

CallGetMagnetLink ==
  \E caller \in Callers : \E detailUrl \in DetailUrls :
    getMagnetLink(caller, detailUrl)

\* fetch(detailUrl) settles, lines 283-285 and 293-299
MagnetFetchSettles ==
  /\ magnet.mounted
  /\ \E fl \in magnet.flights : \E outcome \in {"ok", "http error", "rejected"} :
       /\ fl.stage = "fetch"
       /\ magnet' =
            IF outcome = "ok"
              THEN [magnet EXCEPT !.flights =
                      (@ \ {fl}) \cup {[fl EXCEPT !.stage = "text"]}]
              ELSE MagnetEnds([magnet EXCEPT !.cache[fl.url] = Null],
                              fl, Null, "failed")
  /\ UNCHANGED <<client, store, stack, budget, res, fin, cnt, sig,
                 hook, prefetch>>

\* response.text() settles, lines 285-299
MagnetTextSettles ==
  /\ magnet.mounted
  /\ \E fl \in magnet.flights : \E ok \in BOOLEAN :
       /\ fl.stage = "text"
       /\ magnet' =
            IF ok
              THEN MagnetEnds([magnet EXCEPT !.cache[fl.url] = PageMagnet(fl.url)],
                              fl, PageMagnet(fl.url), "fetched")
              ELSE MagnetEnds([magnet EXCEPT !.cache[fl.url] = Null],
                              fl, Null, "failed")
  /\ UNCHANGED <<client, store, stack, budget, res, fin, cnt, sig,
                 hook, prefetch>>

NextMagnet == CallGetMagnetLink \/ MagnetFetchSettles \/ MagnetTextSettles

SpecMagnet == InitMagnet /\ [][NextMagnet]_vars

\* storeToken and getStoredToken on their own
NextToken ==
  \E p \in Procs :
    \/ CallStoreThenGet(p)
    \/ SetItemDone(p)
    \/ GetStoredTokenDone(p)

SpecToken == InitToken /\ [][NextToken]_vars

\* device ids captchaSign is applied to
SignDeviceIds ==
  RandomDeviceIds \cup
  {generateDeviceIdFromCredentials(cr.username, cr.password) :
     cr \in LoginInputs}

\* captchaSign(d, t) is computed
Sign(d, t) ==
  /\ sig' = [last |-> [deviceId |-> d, timestamp |-> t,
                       out |-> captchaSign(d, t)],
             prev |-> sig.last]
  /\ UNCHANGED <<client, store, stack, budget, res, fin, cnt>>
  /\ UNCHANGED <<hook, prefetch, magnet>>

NextSign == \E d \in SignDeviceIds : \E t \in Timestamps : Sign(d, t)

SpecSign == InitSign /\ [][NextSign]_vars

----------------------------------------------------------------------------
(* Properties *)

Frames(p) == {stack[p][i] : i \in 1..Len(stack[p])}
TopFrame(p) == stack[p][Len(stack[p])]
Finished(p) == {fin[p][i] : i \in 1..Len(fin[p])}

\* p is sending the attempt that follows a 16 answered by a successful refresh
RetryAfterRefresh(p) ==
  /\ ~Idle(p)
  /\ TopFrame(p).t = "request"
  /\ TopFrame(p).st = "fetch"
  /\ TopFrame(p).sent > 1
  /\ TopFrame(p).cause = "expired"

\* refreshAccessToken() calls of p that have not settled
RefreshesPending(p) == {i \in 1..Len(stack[p]) : stack[p][i].t = "refresh"}

\* C1: at most one token refresh is in flight on the client at any time,
\* however many requests were answered error_code 16.
C1_SingleFlightRefresh ==
  Cardinality({<<p, i>> \in Procs \X (1..(2 * MaxNest + 3)) :
                 i \in RefreshesPending(p)}) <= 1

\* C2 as stated: each error_code-16 envelope fires exactly one
\* refreshAccessToken() call, and the next attempt of the request carries the
\* access token issued by that refresh in its Authorization header.
C2_RefreshOnceThenNewToken ==
  \A p \in Procs :
    /\ cnt[p].nRefresh = cnt[p].nExpired + cnt[p].nDirect
    /\ RetryAfterRefresh(p) =>
         /\ Truthy(cnt[p].lastIssued)
         /\ TopFrame(p).hdr.auth = cnt[p].lastIssued

\* C3: once a getDownloadUrl call has returned or thrown, the captcha token
\* of the client is null.
C3_CaptchaClearedAfterDownloadUrl ==
  \A p \in Procs :
    (Idle(p) /\ res[p].op = "getDownloadUrl" /\ res[p].kind # "none")
      => client.captchaToken = Null

\* C4: the only request that carries X-Captcha-Token (and the device
\* User-Agent) is the file GET of the getDownloadUrl call that obtained the
\* token.
C4_CaptchaOnlyOnItsFileGet ==
  \A p \in Procs : \A i \in 1..Len(stack[p]) :
    LET f == stack[p][i] IN
    (f.t = "request" /\ f.st = "fetch"
       /\ (f.hdr.cap # Null \/ (f.hdr.ua # <<>> /\ f.hdr.ua[1] = "device")))
      => /\ f.desc = "file"
         /\ i > 1
         /\ stack[p][i - 1].t = "getDownloadUrl"
         /\ stack[p][i - 1].local = f.hdr.cap

\* C5: after a refresh has failed (refreshAccessToken() rejected, or
\* initFromStorage() returned false because its refresh failed) on a client
\* that was logged in, isLoggedIn() is false.
C5_FailedRefreshLogsOut ==
  \A p \in Procs :
    /\ (Idle(p) /\ res[p].op = "refreshAccessToken" /\ res[p].kind = "throw"
          /\ res[p].wasLoggedIn)
         => ~isLoggedIn(client)
    /\ (Idle(p) /\ res[p].op = "initFromStorage" /\ res[p].kind = "return"
          /\ res[p].note = "refresh failed")
         => ~isLoggedIn(client)

\* initFromStorage() of p settles in this step
InitSettles(p) ==
  /\ stack[p] # <<>>
  /\ stack[p][1].t = "initFromStorage"
  /\ stack'[p] = <<>>

\* the refresh attempted by initFromStorage() of p succeeds in this step
InitRefreshSucceeds(p) ==
  /\ Len(stack[p]) = 2
  /\ stack[p][1].st = "refresh"
  /\ stack[p][2].t = "refresh"
  /\ stack[p][2].st = "store"
  /\ store' = Stored(stack[p][2].blob)

\* the refresh attempted by initFromStorage() of p fails in this step
InitRefreshFails(p) ==
  /\ stack[p] # <<>>
  /\ stack[p][1].t = "initFromStorage"
  /\ stack[p][1].st \in {"get", "refresh"}
  /\ res'[p].note = "refresh failed"

InitNeverThrows(p) ==
  InitSettles(p) =>
    /\ res'[p].kind = "return"
    /\ res'[p].val \in {BoolVal(TRUE), BoolVal(FALSE)}
    /\ res'[p].val = BoolVal(TRUE) => InitRefreshSucceeds(p)
    /\ stack[p][1].st = "refresh" => res'[p].val = BoolVal(TRUE)

\* C6 as stated: initFromStorage() never throws and resolves to a boolean,
\* true only if its refresh succeeded; when the refresh fails it removes the
\* persisted token and returns false.
C6_InitFromStorageRemovesToken ==
  [][\A p \in Procs :
       /\ InitNeverThrows(p)
       /\ InitRefreshFails(p) => stack'[p] = <<Frame("initFromStorage", "clear")>>
       /\ (InitSettles(p) /\ stack[p][1].st = "clear") =>
            /\ res'[p].val = BoolVal(FALSE)
            /\ store' = Absent]_vars

\* C6 amended: initFromStorage() never throws and resolves to a boolean,
\* true only if its refresh succeeded; when the refresh fails it asks the
\* TokenStore to remove the persisted token and returns false, the token
\* being gone unless that removal itself fails (the failure is swallowed and
\* the entry stays as it was).
C6_InitFromStorageAsksRemoval ==
  [][\A p \in Procs :
       /\ InitNeverThrows(p)
       /\ InitRefreshFails(p) => stack'[p] = <<Frame("initFromStorage", "clear")>>
       /\ (InitSettles(p) /\ stack[p][1].st = "clear") =>
            /\ res'[p].val = BoolVal(FALSE)
            /\ store' \in {Absent, store}]_vars

C6_Witness ==
  \E p \in Procs :
    /\ Idle(p)
    /\ res[p].op = "initFromStorage"
    /\ res[p].note = "refresh failed"
    /\ res[p].kind = "return"
    /\ res[p].val = BoolVal(FALSE)
    /\ store = Absent

\* the message of the error that a failure of the given cause records
CauseMsg(cause) ==
  CASE cause = "exc" -> "fetch failed"
    [] cause = "nojson" -> MsgEmptyJson
    [] cause = "expired" -> MsgTokenRefreshed
    [] cause = "store_failed" -> "LocalStorage failure"
    [] OTHER -> "-"

Transient == {"exc", "nojson", "expired", "store_failed"}

\* C7: a request() run whose maxRetries attempts all failed non-fatally
\* fails with a PikPakNetworkError whose message embeds the message of the
\* last error of the run.
C7_ExhaustedIsNetworkErrorWithLast ==
  \A p \in Procs : \A r \in Finished(p) :
    /\ r.outcome = "exhausted" =>
         /\ r.sent = maxRetries
         /\ r.cause \in Transient
         /\ r.err.cls = "PikPakNetworkError"
         /\ r.err.last = CauseMsg(r.cause)
    /\ (r.sent = maxRetries /\ r.cause \in Transient /\ r.outcome # "return")
         => r.outcome = "exhausted"

C7_Witness ==
  \E p \in Procs : \E r \in Finished(p) :
    /\ r.outcome = "exhausted"
    /\ r.cause = "exc"
    /\ r.err.cls = "PikPakNetworkError"
    /\ r.err.last = "fetch failed"

RequestFrames(p) == {f \in Frames(p) : f.t = "request"}

\* C8: the sleep before retry attempt i (i earlier attempts were sent) lasts
\* initialBackoff * 2^(i-1) seconds; nothing is slept before the first
\* attempt nor after the last one.
C8_BackoffDelay ==
  \A p \in Procs : \A f \in RequestFrames(p) :
    /\ f.st = "sleep" =>
         /\ f.sent >= 1
         /\ f.sent < maxRetries
         /\ f.delay = 1000 * (initialBackoff * Pow2(f.sent - 1))
    /\ (f.st = "fetch" /\ f.sent = 1) => ~f.slept
    /\ f.sent <= maxRetries

C8_Witness ==
  \E p \in Procs : \E f \in RequestFrames(p) :
    /\ f.st = "sleep"
    /\ f.sent = 2
    /\ f.delay = 1000 * (initialBackoff * 2)

\* C9: the attempt that follows a successful refresh is sent without a
\* sleep; the attempt that follows any other transient failure is sent after
\* the backoff sleep.
C9_NoBackoffAfterRefresh ==
  \A p \in Procs : \A f \in RequestFrames(p) :
    /\ (f.st = "fetch" /\ f.sent > 1) =>
         /\ f.cause \in Transient
         /\ f.slept <=> f.cause # "expired"
    /\ f.st = "sleep" => f.cause \in Transient \ {"expired"}

C9_Witness ==
  \E p \in Procs : \E f \in RequestFrames(p) :
    /\ f.st = "fetch"
    /\ f.sent > 1
    /\ f.cause = "expired"
    /\ ~f.slept

\* C10: an envelope without an error field, whatever the HTTP status, ends
\* the run of the request that received it: the envelope is returned
\* unchanged, no refresh is called and the request sends nothing more.
C10_NoErrorEnvelopeReturned ==
  \A p \in Procs :
    cnt[p].lastResp # NoResp =>
      /\ fin[p] # <<>>
      /\ fin[p][1].outcome = "return"
      /\ fin[p][1].val = cnt[p].lastResp.env
      /\ cnt[p].nRefresh = 0
      /\ \A f \in RequestFrames(p) : f.st # "sleep"

C10_Witness ==
  \E p \in Procs :
    /\ cnt[p].lastResp # NoResp
    /\ ~cnt[p].lastResp.ok
    /\ fin[p] # <<>>
    /\ fin[p][1].outcome = "return"
    /\ fin[p][1].val = cnt[p].lastResp.env
    /\ fin[p][1].val.data = "payload"

\* no request() of p is sending or sleeping
NothingPending(p) == \A f \in RequestFrames(p) : f.st \notin {"fetch", "sleep"}

\* C11: a response whose error is "invalid_account_or_password" ends the
\* request that received it at that attempt with the PikPakAuthError
\* "Invalid username or password": nothing more is sent, no refresh is
\* called (whatever the error_code, 16 included) and nothing sleeps.
C11_InvalidCredentialsIsFatal ==
  \A p \in Procs :
    cnt[p].lastFail.env.error = "invalid_account_or_password" =>
      /\ fin[p] # <<>>
      /\ fin[p][1].outcome = "throw"
      /\ fin[p][1].err = PikPakAuthError("Invalid username or password")
      /\ \A i \in 1..Len(fin[p]) : fin[p][i].outcome = "throw"
      /\ cnt[p].nRefresh = 0
      /\ NothingPending(p)

C11_Witness ==
  \E p \in Procs :
    /\ cnt[p].lastFail.env.error = "invalid_account_or_password"
    /\ cnt[p].lastFail.env.error_code = TOKEN_EXPIRED_CODE
    /\ fin[p] # <<>>
    /\ fin[p][1].sent = 1
    /\ fin[p][1].err.cls = "PikPakAuthError"
    /\ cnt[p].nRefresh = 0

\* the envelope reports an error that is neither the credentials error nor
\* accompanied by error_code 16
IsOtherApiError(env) ==
  /\ Truthy(env.error)
  /\ env.error # "invalid_account_or_password"
  /\ env.error_code # TOKEN_EXPIRED_CODE

\* C12: a response whose error is neither "invalid_account_or_password" nor
\* accompanied by error_code 16 ends the request that received it at that
\* attempt (nothing more sent, no refresh, no sleep) with a plain PikPakError
\* whose code is the remote error_code and whose message is the remote
\* error_description ("Unknown Error" when the envelope has none).
C12_OtherErrorIsFatalApiError ==
  \A p \in Procs :
    LET env == cnt[p].lastFail.env IN
    IsOtherApiError(env) =>
      /\ fin[p] # <<>>
      /\ fin[p][1].outcome = "throw"
      /\ fin[p][1].err.cls = "PikPakError"
      /\ fin[p][1].err.code = env.error_code
      /\ fin[p][1].err.msg = IF env.error_description = Undef
                               THEN "Unknown Error"
                               ELSE env.error_description
      /\ \A i \in 1..Len(fin[p]) : fin[p][i].outcome = "throw"
      /\ cnt[p].nRefresh = 0
      /\ NothingPending(p)

C12_Witness ==
  \E p \in Procs :
    /\ IsOtherApiError(cnt[p].lastFail.env)
    /\ fin[p] # <<>>
    /\ fin[p][1].err.cls = "PikPakError"
    /\ fin[p][1].err.code = OTHER_ERROR_CODE
    /\ fin[p][1].err.msg = "remote description"
    /\ fin[p][1].sent = 2

\* p calls refreshAccessToken() in this step
RefreshCalled(p) == Idle(p) /\ cnt'[p].nDirect = 1

\* C13: refreshAccessToken() called while no refresh token is held rejects
\* at once with the PikPakAuthError "No refresh token available": no request
\* is sent and neither the client fields nor the TokenStore change.
C13_RefreshWithoutTokenFails ==
  [][\A p \in Procs :
       (RefreshCalled(p) /\ client.refreshToken \in {Null, Undef}) =>
         /\ stack'[p] = <<>>
         /\ fin'[p] = <<>>
         /\ res'[p].kind = "throw"
         /\ res'[p].err = PikPakAuthError("No refresh token available")
         /\ client' = client
         /\ store' = store]_vars

C13_Witness ==
  \E p \in Procs :
    /\ Idle(p)
    /\ cnt[p].nDirect = 1
    /\ res[p].op = "refreshAccessToken"
    /\ res[p].kind = "throw"
    /\ res[p].err.msg = "No refresh token available"
    /\ client.refreshToken = Undef
    /\ client.accessToken = Undef

\* the login() or refreshAccessToken() that p called resolves in this step
ResolvesWithTokens(p) ==
  /\ Len(stack[p]) = 1
  /\ stack[p][1].t \in {"login", "refresh"}
  /\ stack[p][1].st = "store"
  /\ stack'[p] = <<>>
  /\ res'[p].kind = "return"

LogoutCalled(p) == Idle(p) /\ res'[p].op = "logout" /\ res'[p].kind = "none"

LogoutSettles(p) ==
  /\ stack[p] # <<>>
  /\ stack[p][1].t = "logout"
  /\ stack'[p] = <<>>

TokenPresent(v) == Truthy(v)

\* C16: in every reachable state isLoggedIn() is true exactly when an access
\* token and a refresh token are both present in memory (so it is false on
\* the freshly constructed client).
C16_LoggedInIffTokensPresent ==
  isLoggedIn(client) <=>
    (TokenPresent(client.accessToken) /\ TokenPresent(client.refreshToken))

\* the captcha init of the login() of p is answered by an envelope without
\* an error in this step
LoginCaptchaAnswered(p) ==
  /\ Len(stack[p]) = 2
  /\ stack[p][1].t = "login"
  /\ stack[p][1].st = "captcha"
  /\ stack[p][2].st = "fetch"
  /\ fin'[p] # <<>>
  /\ fin'[p][1].desc = "captcha"
  /\ fin'[p][1].outcome = "return"

SignInSent(s) ==
  \E i \in 1..Len(s) : s[i].t = "request" /\ s[i].desc = "signin"

\* C17: the sign-in request of login() is started only by the answer to its
\* captcha init, a request of action "POST:" + the login URL, and with the
\* captcha_token of that answer; when that answer carries no captcha_token
\* login() rejects with the PikPakAuthError "Failed to get captcha token",
\* no sign-in request is sent, and neither the token fields nor the
\* TokenStore change.
C17_CaptchaBeforeSignIn ==
  [][\A p \in Procs :
       /\ (SignInSent(stack'[p]) /\ ~SignInSent(stack[p])) =>
            /\ LoginCaptchaAnswered(p)
            /\ stack[p][2].data.action =
                 "POST:https://user.mypikpak.com/v1/auth/signin"
            /\ Truthy(fin'[p][1].val.captcha_token)
            /\ stack'[p][1].local = fin'[p][1].val.captcha_token
       /\ (LoginCaptchaAnswered(p) /\ Falsy(fin'[p][1].val.captcha_token)) =>
            /\ stack'[p] = <<>>
            /\ res'[p].kind = "throw"
            /\ res'[p].err = PikPakAuthError("Failed to get captcha token")
            /\ client' = client
            /\ store' = store]_vars

C17_Witness ==
  \E p \in Procs :
    /\ Idle(p)
    /\ res[p].op = "login"
    /\ res[p].kind = "throw"
    /\ res[p].err.msg = "Failed to get captcha token"
    /\ fin[p] # <<>>
    /\ fin[p][1].desc = "captcha"
    /\ fin[p][1].outcome = "return"
    /\ cnt[p].lastResp.ok

\* the captcha init requests of a login() of p
LoginCaptchaRequests(p) ==
  {i \in 2..Len(stack[p]) :
     stack[p][i].desc = "captcha" /\ stack[p][i - 1].t = "login"}

\* the metadata field the claim assigns to a username
ExpectedField(u) ==
  IF MatchesEmail(u) THEN "email"
  ELSE IF HasDigitRun(u) THEN "phone_number"
  ELSE "username"

\* C18: the captcha init of login(username, ...) carries exactly one
\* metadata field, holding the username: email when the username matches the
\* e-mail pattern, otherwise phone_number when it contains 11 to 18 digits
\* in a row, otherwise username; "user@example.com" goes as email,
\* "13800000000" as phone_number, "alice" as username.
C18_OneMetaFieldByShape ==
  \A p \in Procs : \A i \in LoginCaptchaRequests(p) :
    LET u == stack[p][i - 1].args[1]
        meta == stack[p][i].data.meta
    IN  /\ meta = {<<ExpectedField(u), Join(u)>>}
        /\ u = UserEmail => meta = {<<"email", "user@example.com">>}
        /\ u = UserPhone => meta = {<<"phone_number", "13800000000">>}
        /\ u = UserPlain => meta = {<<"username", "alice">>}
        /\ u = UserShortNumber => meta = {<<"username", "1380000000">>}
        /\ u = UserAtNoDot => meta = {<<"username", "a@b">>}
        /\ u = UserPhoneMail => meta = {<<"email", "13800000000@x.io">>}
        /\ u = UserTextPhone => meta = {<<"phone_number", "tel:13800000000">>}

C18_Witness ==
  \E p \in Procs : \E i \in LoginCaptchaRequests(p) :
    /\ stack[p][i - 1].args[1] = UserPhone
    /\ stack[p][i].st = "fetch"
    /\ stack[p][i].data.meta = {<<"phone_number", "13800000000">>}

\* p calls login() in this step
LoginCalled(p) == Idle(p) /\ res'[p].op = "login" /\ res'[p].kind = "none"

\* C19: the device id of the client changes only in the step that calls
\* login(u, p); that step sets it to the digest of u followed by p, whatever
\* the instance and whatever the TokenStore held, and the captcha init
\* request of that login already carries the new value.
C19_DeviceIdChangesOnlyAtLogin ==
  [][/\ client'.deviceId # client.deviceId => \E p \in Procs : LoginCalled(p)
     /\ \A p \in Procs :
          LoginCalled(p) =>
            LET u == stack'[p][1].args[1]
                pw == stack'[p][1].args[2]
                req == stack'[p][2]
            IN  /\ client'.deviceId = md5(Join(u) \o Join(pw))
                /\ req.desc = "captcha"
                /\ req.st = "fetch"
                /\ req.data.device_id = client'.deviceId
                /\ req.hdr.dev = client'.deviceId]_vars

C19_Witness ==
  \E p \in Procs :
    /\ Len(stack[p]) = 2
    /\ stack[p][1].t = "login"
    /\ stack[p][1].args = <<UserEmail, Password>>
    /\ stack[p][2].st = "fetch"
    /\ stack[p][2].sent = 1
    /\ stack[p][2].hdr.dev = "md5(user@example.compw)"
    /\ client.deviceId = "md5(user@example.compw)"
    /\ res[p].wasLoggedIn

\* the digest after the first n salts, for device id d and timestamp t
RECURSIVE SaltedDigest(_, _, _)
SaltedDigest(d, t, n) ==
  IF n = 0 THEN CLIENT_ID \o CLIENT_VERSION \o PACKAGE_NAME \o d \o t
           ELSE md5(SaltedDigest(d, t, n - 1) \o SALTS[n])

SignCalls == {sig.last, sig.prev} \ {NoCall}

\* C20: captchaSign(deviceId, timestamp) returns "1." followed by the digest
\* obtained from the seed clientId + clientVersion + packageName + deviceId +
\* timestamp by hashing, for each of the 15 salts in their order, the
\* previous result followed by the salt; two calls with the same arguments
\* return the same string.
C20_CaptchaSignIsSaltChain ==
  /\ Len(SALTS) = 15
  /\ \A c \in SignCalls :
       /\ Len(c.out) = 2
       /\ c.out[1] = "1."
       /\ c.out[2] = SaltedDigest(c.deviceId, c.timestamp, 15)
  /\ (sig.last.deviceId = sig.prev.deviceId
        /\ sig.last.timestamp = sig.prev.timestamp)
       => sig.last.out = sig.prev.out

C20_Witness ==
  /\ sig.prev # NoCall
  /\ sig.last.deviceId = sig.prev.deviceId
  /\ sig.last.timestamp = sig.prev.timestamp
  /\ sig.last.deviceId = "md5(alicepw)"
  /\ sig.last.out[1] = "1."

\* the getStoredToken() that follows the storeToken(t) of p returns in this
\* step, LocalStorage having served the read
ReadsBack(p) ==
  /\ Len(stack[p]) = 2
  /\ stack[p][1].t = "storeThenGet"
  /\ stack[p][2].st = "read"
  /\ res'[p].kind = "return"
  /\ res'[p].val # NullVal

ShareMarks(u) ==
  {i \in 1..(Len(u) - 3) :
     u[i] = "/" /\ u[i + 1] = "s" /\ u[i + 2] = "/" /\ u[i + 3] # "/"}

\* u has the form .../s/<shareId>[/.../<parentId>]
OfShareForm(u) == ShareMarks(u) # {} /\ u[Len(u)] # "/"

\* the path segment that starts at position j
SegmentAt(u, j) ==
  SubSeq(u, j, SetMin({k \in j..(Len(u) + 1) : k = Len(u) + 1 \/ u[k] = "/"}) - 1)

\* the characters after the last "/"
LastSegment(u) ==
  SubSeq(u, SetMax({k \in 1..Len(u) : u[k] = "/"}) + 1, Len(u))

ShareIdOf(u) == SegmentAt(u, SetMin(ShareMarks(u)) + 3)

\* further segments follow the share id: the last "/" is not that of "/s/"
HasParent(u) ==
  SetMax({k \in 1..Len(u) : u[k] = "/"}) > SetMin(ShareMarks(u)) + 2

\* the links as the strings noted with the results
LinkName == [u \in ShareLinks |-> Join(u)]
LinkOf(p) == CHOOSE u \in ShareLinks : LinkName[u] = res[p].note
\* the links that are not of the form
InvalidLinkNames == {LinkName[u] : u \in {v \in ShareLinks : ~OfShareForm(v)}}

\* C22: getShareInfo takes as share id the path segment right after /s/ and
\* as parent id the last path segment when further segments follow (none
\* otherwise), and sends them as share_id and parent_id of its one request;
\* a link that is not of that form makes it throw the plain PikPakError
\* "Invalid share link" at once, no request having been sent.
C22_ShareLinkParsed ==
  \A p \in Procs :
    res[p].op = "getShareInfo" =>
      LET u == LinkOf(p) IN
      IF OfShareForm(u)
        THEN /\ res[p].err.msg # "Invalid share link"
             /\ ~Idle(p) =>
                  LET q == stack[p][2].params IN
                  /\ stack[p][2].t = "request"
                  /\ Lookup(q, "share_id") = Join(ShareIdOf(u))
                  /\ Lookup(q, "parent_id") =
                       IF HasParent(u) THEN Join(LastSegment(u)) ELSE Undef
        ELSE /\ Idle(p)
             /\ res[p].kind = "throw"
             /\ res[p].err = PikPakError("Invalid share link", Undef)

\* the link of the spec's scenario is being requested
C22_Witness ==
  \E p \in Procs :
    /\ res[p].op = "getShareInfo"
    /\ res[p].note = "https://host/s/abc123/xyz"
    /\ ~Idle(p)
    /\ stack[p][2].st = "fetch"
    /\ stack[p][2].sent = 2
    /\ Lookup(stack[p][2].params, "share_id") = "abc123"
    /\ Lookup(stack[p][2].params, "parent_id") = "xyz"

\* the step changes the stack of p
Steps(p) == stack'[p] # stack[p]

\* p calls an operation in this step
Called(p) == Idle(p) /\ (stack'[p] # <<>> \/ res'[p] # res[p])

\* the operation of p calls request() in this step: the frame right above
\* the operation's own is a request() that is sending its first attempt
NewRun(p) ==
  /\ Steps(p)
  /\ Len(stack'[p]) >= 2
  /\ stack'[p][2].t = "request"
  /\ stack'[p][2].st = "fetch"
  /\ stack'[p][2].sent = 1

\* the request() run of descriptor desc, one the operation of p called
\* itself (a refresh calls the others), ends in this step
OwnRunEnds(p, desc, outcomes) ==
  /\ Steps(p)
  /\ \E i \in 1..Len(fin'[p]) :
       fin'[p][i].desc = desc /\ fin'[p][i].outcome \in outcomes

\* a request() is called only by the call of a one-request operation, by
\* the call of getDownloadUrl (the captcha init scoped to the file GET), and
\* by getDownloadUrl when that captcha init has returned (the file GET)
RunsInOrder(p) ==
  NewRun(p) =>
    LET f == stack'[p][1]
        r == stack'[p][2] IN
    \/ Idle(p) /\ f.t \in {"facade", "getShareInfo"} /\ r.desc = "api"
    \/ /\ Idle(p) /\ f.t = "getDownloadUrl" /\ f.st = "captcha"
       /\ r.desc = "captcha"
       /\ r.data.action = "GET:/drive/v1/files/" \o FileId
    \/ /\ ~Idle(p) /\ stack[p][1].t = "getDownloadUrl"
       /\ stack[p][1].st = "captcha"
       /\ OwnRunEnds(p, "captcha", {"return"})
       /\ f.t = "getDownloadUrl" /\ f.st = "file" /\ r.desc = "file"

\* the operation ends with the request() it called, except that the captcha
\* init of getDownloadUrl, when it returns, is followed by the file GET
RunsEndOperation(p) ==
  /\ OwnRunEnds(p, "api", {"return", "throw", "exhausted"}) => stack'[p] = <<>>
  /\ OwnRunEnds(p, "file", {"return", "throw", "exhausted"}) => stack'[p] = <<>>
  /\ OwnRunEnds(p, "captcha", {"throw", "exhausted"}) =>
       stack'[p] = <<>> /\ res'[p].kind = "throw"
  /\ OwnRunEnds(p, "captcha", {"return"}) => NewRun(p)

\* C23 as stated: every facade operation other than getDownloadUrl calls
\* request() exactly once per invocation; getDownloadUrl calls it for the
\* captcha init scoped to GET:/drive/v1/files/{id} and then, unless that
\* init fails, for the file GET.
C23_OneRequestPerOperation ==
  [][\A p \in Procs :
       /\ RunsInOrder(p)
       /\ RunsEndOperation(p)
       /\ Called(p) => NewRun(p)]_vars

\* C23 amended: the same, except that getShareInfo calls request() not at
\* all when its share link does not match (it throws "Invalid share link").
C23_OneRequestUnlessInvalidLink ==
  [][\A p \in Procs :
       /\ RunsInOrder(p)
       /\ RunsEndOperation(p)
       /\ Called(p) =>
            IF res'[p].op = "getShareInfo" /\ res'[p].note \in InvalidLinkNames
              THEN stack'[p] = <<>> /\ res'[p].kind = "throw"
              ELSE NewRun(p)]_vars

\* the file GET of getDownloadUrl is being retried after its captcha init
C23_Witness ==
  \E p \in Procs :
    /\ res[p].op = "getDownloadUrl"
    /\ Len(stack[p]) = 2
    /\ stack[p][1].st = "file"
    /\ stack[p][2].desc = "file"
    /\ stack[p][2].st = "fetch"
    /\ stack[p][2].sent = 2
    /\ stack[p][2].hdr.cap = "cap1"

\* the classes of the errors that request() lets out
Surfaced == {"PikPakAuthError", "PikPakError", "PikPakNetworkError"}

\* C24: a request() run ends by returning a payload or by throwing a
\* PikPakAuthError, a plain PikPakError or a PikPakNetworkError, never a
\* PikPakRetryError; and no operation of the client rejects with a
\* PikPakRetryError.
C24_RetrySignalsStayInside ==
  \A p \in Procs :
    /\ \A r \in Finished(p) :
         \/ r.outcome = "return" /\ r.err = NoErr
         \/ r.outcome \in {"throw", "exhausted"} /\ r.err.cls \in Surfaced
    /\ res[p].kind = "throw" => res[p].err.cls # "PikPakRetryError"

\* a run that met both retry signals has ended
C24_Witness ==
  \E p \in Procs : \E r \in Finished(p) :
    /\ r.nNow >= 1
    /\ r.nDelay >= 1
    /\ r.cause = "nojson"
    /\ r.outcome = "exhausted"
    /\ res[p].kind = "throw"
    /\ res[p].err.cls = "PikPakNetworkError"

\* C25: a request() run sends at most maxRetries HTTP calls, the attempt
\* index being the number of calls sent before; it ends at the first attempt
\* that succeeds or fails fatally (every attempt before it failed with a
\* retry signal), or when maxRetries attempts have failed.
C25_AtMostMaxRetriesAttempts ==
  \A p \in Procs :
    /\ \A f \in RequestFrames(p) :
         /\ f.sent \in 1..maxRetries
         /\ f.attempt = f.sent - 1
    /\ \A r \in Finished(p) :
         /\ r.sent \in 1..maxRetries
         /\ r.outcome = "exhausted" => r.sent = maxRetries
         /\ r.outcome \in {"return", "throw"} => r.nNow + r.nDelay = r.sent - 1

C25_Witness ==
  \E p \in Procs : \E f \in RequestFrames(p) :
    /\ f.st = "fetch"
    /\ f.sent = maxRetries
    /\ f.attempt = maxRetries - 1
    /\ f.desc = "api"

\* C26: the retries made at once after a refresh (nNow) and the failures
\* followed by the backoff (nDelay) of one request() run are counted by the
\* one attempt index, so together they never exceed maxRetries; a run whose
\* every attempt was answered error_code 16, each refresh succeeding, ends
\* after maxRetries attempts and as many refreshes with the
\* PikPakNetworkError.
C26_SharedAttemptBudget ==
  \A p \in Procs :
    /\ \A f \in RequestFrames(p) :
         /\ f.nNow + f.nDelay <= maxRetries
         /\ f.nNow + f.nDelay = IF f.st = "sleep" THEN f.attempt + 1
                                                  ELSE f.attempt
    /\ \A r \in Finished(p) :
         /\ r.nNow + r.nDelay <= maxRetries
         /\ r.nNow + r.nDelay + (IF r.cause = "refresh_failed" THEN 1 ELSE 0)
              <= maxRetries
         /\ r.outcome = "exhausted" <=> r.nNow + r.nDelay = maxRetries
         /\ r.nNow = maxRetries =>
              /\ r.sent = maxRetries
              /\ r.err = PikPakNetworkError(PikPakRetryError(MsgTokenRefreshed))

C26_Witness ==
  \E p \in Procs : \E r \in Finished(p) :
    /\ r.desc = "api"
    /\ r.nNow = maxRetries
    /\ r.nDelay = 0
    /\ r.outcome = "exhausted"
    /\ r.err.last = MsgTokenRefreshed
    /\ isLoggedIn(client)

\* the failure that p received in this step was recorded as the last error
\* e and classified for a retry after the delay: the run sleeps the backoff
\* if attempts remain, and otherwise ends with the PikPakNetworkError of e
DelayedRetry(p, e) ==
  \/ /\ ~Idle(p)
     /\ fin[p] = <<>>
     /\ TopFrame(p).t = "request"
     /\ TopFrame(p).st = "sleep"
     /\ TopFrame(p).lastError = e
     /\ TopFrame(p).sent < maxRetries
     /\ TopFrame(p).delay = BackoffDelay(TopFrame(p).sent - 1)
  \/ /\ fin[p] # <<>>
     /\ fin[p][1].outcome = "exhausted"
     /\ fin[p][1].sent = maxRetries
     /\ fin[p][1].err = PikPakNetworkError(e)

\* C27: a response without a JSON body (empty or unparseable) is returned
\* as the empty payload {} when the HTTP status is a success, no refresh
\* being called; when the status is a failure it is a retry after the
\* delay, and never an Api error.
C27_EmptyBodyByStatus ==
  \A p \in Procs :
    LET r == cnt[p].lastOther IN
    /\ (r.kind = "nojson" /\ r.ok) =>
         /\ fin[p] # <<>>
         /\ fin[p][1].outcome = "return"
         /\ fin[p][1].val = EmptyEnv
         /\ cnt[p].nRefresh = 0
    /\ (r.kind = "nojson" /\ ~r.ok) =>
         DelayedRetry(p, PikPakRetryError(MsgEmptyJson))

\* a facade operation returned {} for a body without JSON, after a retry
C27_Witness ==
  \E p \in Procs :
    /\ cnt[p].lastOther.kind = "nojson"
    /\ cnt[p].lastOther.ok
    /\ fin[p] # <<>>
    /\ fin[p][1].desc = "api"
    /\ fin[p][1].sent = 2
    /\ res[p].kind = "return"
    /\ res[p].val = EmptyEnv

\* C28: an exception of an attempt that is not a PikPakError (the fetch
\* rejecting; storeToken rejecting inside a refresh that the attempt awaited)
\* is recorded as the last error and is a retry after the delay; no request()
\* run ends by throwing such an exception.
C28_ExceptionIsRetriedAfterDelay ==
  \A p \in Procs :
    /\ cnt[p].lastOther.kind = "exc" =>
         DelayedRetry(p, OtherError("fetch failed"))
    /\ \A f \in RequestFrames(p) :
         f.cause \in {"exc", "store_failed"} =>
           /\ f.lastError = OtherError(CauseMsg(f.cause))
           /\ f.st = "sleep" \/ (f.st = "fetch" /\ f.slept)
    /\ \A r \in Finished(p) : r.err.cls # "Error"

C28_Witness ==
  \E p \in Procs :
    /\ cnt[p].lastOther.kind = "exc"
    /\ ~Idle(p)
    /\ TopFrame(p).st = "sleep"
    /\ TopFrame(p).sent = 2
    /\ TopFrame(p).lastError.cls = "Error"
    /\ TopFrame(p).nDelay = 2

\* C29: when the refresh that an error_code-16 answer started fails with a
\* PikPakError (no refresh token, an error of the refresh endpoint, the
\* retries of the refresh request exhausted), the request() that awaited it
\* ends in the same step by throwing that very error: it sends nothing more
\* and does not sleep.
C29_FailedRefreshSurfaces ==
  \A p \in Procs :
    /\ \A i \in 1..Len(fin[p]) :
         fin[p][i].cause = "refresh_failed" =>
           /\ fin[p][i].outcome = "throw"
           /\ fin[p][i].err =
                IF i = 1 THEN PikPakAuthError("No refresh token available")
                         ELSE fin[p][i - 1].err
    /\ \A f \in RequestFrames(p) : f.cause # "refresh_failed"
    /\ (Idle(p) /\ res[p].op = "facade" /\ fin[p] # <<>>
          /\ fin[p][Len(fin[p])].cause = "refresh_failed") =>
         /\ res[p].kind = "throw"
         /\ res[p].err = fin[p][Len(fin[p])].err

\* the retries of the refresh request were exhausted
C29_Witness ==
  \E p \in Procs :
    /\ Len(fin[p]) = 2
    /\ fin[p][1].desc = "refresh"
    /\ fin[p][1].outcome = "exhausted"
    /\ fin[p][2].desc = "api"
    /\ fin[p][2].cause = "refresh_failed"
    /\ fin[p][2].sent = 1
    /\ res[p].err = fin[p][1].err

\* hdr is what getHeaders() builds from client c (lines 60-81)
BuiltFrom(c, hdr) ==
  /\ hdr.auth = IF Truthy(c.accessToken) THEN c.accessToken ELSE Null
  /\ hdr.cap = IF Truthy(c.captchaToken) THEN c.captchaToken ELSE Null
  /\ hdr.dev = IF Truthy(c.deviceId) THEN c.deviceId ELSE Null
  /\ hdr.ua = IF Truthy(c.captchaToken)
                THEN <<"device", c.deviceId, OrElse(c.userId, "")>>
                ELSE <<"static">>

\* C30: the headers of every request being sent are those built from the
\* client state of the attempt: Authorization exactly when an access token
\* is present, X-Captcha-Token exactly when a captcha token is active,
\* X-Device-Id when a device id is present, and the static User-Agent unless
\* a captcha token is active, then the device one.  (The call site is alone:
\* while its request is being sent the client state is that of the attempt.)
C30_HeadersFromClientState ==
  \A p \in Procs : \A f \in RequestFrames(p) :
    f.st = "fetch" => BuiltFrom(client, f.hdr)

\* the session fields of the client
Session(c) == <<c.accessToken, c.refreshToken, c.userId>>

\* no request() run of the operation of p, running or just finished, has
\* received an answer with error_code 16
NoExpiryBefore(p) == \A f \in RequestFrames(p) : ~f.got16
NoExpiryAfter(p) ==
  /\ \A i \in 1..Len(stack'[p]) :
       stack'[p][i].t = "request" => ~stack'[p][i].got16
  /\ \A i \in 1..Len(fin'[p]) : ~fin'[p][i].got16

\* C31: every step of a facade operation (its call, an answer to its
\* request, a backoff timer) none of whose request() runs has received
\* error_code 16 leaves the access token, the refresh token, the user id and
\* the persisted token as they were, whether the operation goes on, returns
\* or throws; so a facade operation whose run never receives error_code 16
\* leaves them unchanged.
C31_FacadeKeepsSession ==
  [][\A p \in Procs :
       (stack[p] # NotStarted /\ NoExpiryBefore(p) /\ NoExpiryAfter(p)) =>
         /\ Session(client') = Session(client)
         /\ store' = store]_vars

\* facade operations have ended in every way without an error_code 16, on a
\* client that holds a session
C31_Witness ==
  \E p \in Procs :
    /\ Idle(p)
    /\ res[p].op = "getDownloadUrl"
    /\ res[p].kind = "throw"
    /\ fin[p] # <<>>
    /\ fin[p][1].desc = "file"
    /\ ~fin[p][1].got16
    /\ fin[p][1].sent = 2
    /\ isLoggedIn(client)
    /\ store # Absent

\* C32: the HTTP calls of one facade operation are its own attempts and the
\* requests of the refreshes these attempts start: no refreshAccessToken()
\* runs inside the request of another, so that at most maxRetries attempts,
\* each with at most maxRetries refresh requests, are sent and the operation
\* ends.
C32_CallsOfOneOperationBounded ==
  \A p \in Procs : RefreshDepth(stack[p]) <= 1

\* logout() of call site p has resolved, its removal of the persisted token
\* done: the client is logged out and the TokenStore holds no token
LogoutResolved(p) ==
  /\ Idle(p)
  /\ res[p].op = "logout"
  /\ res[p].kind = "return"
  /\ ~isLoggedIn(client)
  /\ store = Absent

\* C33: once logout() has resolved, isLoggedIn() stays false and the
\* persisted token stays absent whatever completes afterwards (no login()
\* and no initFromStorage() is started here), a refresh or an error_code-16
\* retry that began before the logout included.
C33_LogoutIsFinal ==
  [][\A p \in Procs :
       LogoutResolved(p) => (~isLoggedIn(client') /\ store' = Absent)]_vars

\* the token pair in memory
MemoryPair(c) == [access_token |-> c.accessToken, refresh_token |-> c.refreshToken]

\* every call site is idle, its last operation (none of them a logout)
\* resolved
AllResolved ==
  \A p \in Procs :
    /\ Idle(p)
    /\ res[p].kind = "return"
    /\ res[p].op # "logout"

\* C34: when no operation is in flight, every operation called has resolved
\* and isLoggedIn() is true, the TokenStore holds the token pair that is in
\* memory, however the refreshes of the two call sites interleaved.
C34_StoreEqualsMemoryWhenIdle ==
  (AllResolved /\ isLoggedIn(client)) =>
    store = Stored(encodeToken(MemoryPair(client)))

\* C35: a login() or refreshAccessToken() call that has rejected leaves the
\* tokens in memory as they were when it was called; in particular
\* isLoggedIn() is what it was at the call (the call site is alone: nothing
\* else has touched the client since).
C35_RejectedCallKeepsSession ==
  \A p \in Procs :
    (/\ Idle(p)
     /\ res[p].op \in {"login", "refreshAccessToken"}
     /\ res[p].kind = "throw") =>
      isLoggedIn(client) = res[p].wasLoggedIn

\* C36: once initClient has finished (isLoading false), the client of the
\* hook is set, whether the restore and the automatic login succeeded or
\* failed; a login() called after that is never rejected with "Client not
\* initialized"; and isLoggedIn is true only when the client is set.
C36_ClientSetAfterInit ==
  /\ (hook.pc = "done" /\ ~hook.isLoading) => hook.client # Null
  /\ (hook.result = "Client not initialized") => ~hook.ready
  /\ hook.isLoggedIn => hook.client # Null

\* the links of the fetches in flight
InFlight(pf) == {fl.link : fl \in pf.flights}

\* C37: no two detail fetches are in flight for one link and none for a link
\* whose details are cached; a fetch is started only for a link that is
\* neither cached nor pending; the pending set holds exactly the links of the
\* fetches in flight, so that every fetch that ended (used, failed or
\* discarded as stale) has removed its link.
C37_OneFetchPerLink ==
  [][/\ \A f1, f2 \in prefetch'.flights : f1.link = f2.link => f1 = f2
     /\ \A fl \in prefetch'.flights : ~prefetch'.cache[fl.link].cached
     /\ \A fl \in prefetch'.flights \ prefetch.flights :
          fl.stage = "fetch" =>
            /\ ~prefetch.cache[fl.link].cached
            /\ fl.link \notin prefetch.pending
            /\ fl.link \notin InFlight(prefetch)
     /\ prefetch'.pending = InFlight(prefetch')]_vars

\* a link is fetched again after its stale fetch was discarded, another
\* fetch being in flight
C37_Witness ==
  /\ prefetch.mounted
  /\ prefetch.token = 3
  /\ \E f1, f2 \in prefetch.flights :
       /\ f1.link = "L1" /\ f1.token = 3
       /\ f2.link = "L2" /\ f2.token = 2 /\ f2.stage = "text"
  /\ prefetch.pending = {"L1", "L2"}
  /\ \A l \in Links : ~prefetch.cache[l].cached

\* the fetch that ends in this step, if one does
Ended == { fl \in prefetch.flights :
             \A g \in prefetch'.flights : g.link # fl.link \/ g.token # fl.token }

\* C38: a response that arrives after a newer fetch was started (its token
\* is no longer the current one) changes neither the cache nor the items;
\* the cache and the items change only when the fetch started last ends.
C38_OnlyLatestFetchIsUsed ==
  [][/\ \A fl \in Ended :
          fl.token # prefetch.token =>
            /\ prefetch'.cache = prefetch.cache
            /\ prefetch'.items = prefetch.items
     /\ (prefetch'.cache # prefetch.cache \/ prefetch'.items # prefetch.items) =>
          \E fl \in Ended :
            /\ fl.token = prefetch.token
            /\ \A l \in Links \ {fl.link} :
                 prefetch'.cache[l] = prefetch.cache[l]]_vars

\* a stale response has been discarded and the latest one used: the link
\* fetched first is not cached, the one fetched last is
C38_Witness ==
  /\ prefetch.mounted
  /\ prefetch.token = 2
  /\ prefetch.flights = {}
  /\ ~prefetch.cache["L1"].cached
  /\ prefetch.cache["L2"].cached
  /\ prefetch.items["g2"].coverUrl = MIKAN_BASE \o <<"/", "c", ".", "j", "p", "g">>
  /\ prefetch.items["g1"] = NoItem

\* C39: getMagnetLink reports null only for a page without a magnet link or
\* after its own fetch failed, also to a caller that called while a fetch
\* of the same URL was pending; at most one fetch per URL is in flight; and
\* the result of a fetch that ended is in the cache.
C39_MagnetForEveryCaller ==
  /\ \A c \in Callers :
       magnet.got[c].how = "pending" => PageMagnet(magnet.got[c].url) = Null
  /\ \A f1, f2 \in magnet.flights : f1.url = f2.url => f1 = f2
  /\ \A c \in Callers :
       magnet.got[c].how \in {"fetched", "failed"} =>
         magnet.cache[magnet.got[c].url] # Undef

====
